---- MODULE Spec2Model ----
(***************************************************************************)
(* Photo-mosaic ticker: the tile-to-glyph mapper (glyphMap.ts), the atlas  *)
(* builder and its reader (photos.ts, atlas.ts) and the render/animation   *)
(* engine (pixiTicker.ts), each as a state machine of its own.             *)
(*                                                                         *)
(* Units.  Lengths are pixels.  Saturation is held in percent (0..100), so *)
(* that the desirability scores stay integers.  A sprite's scale is held   *)
(* in 1/128ths (the texture width of an atlas tile), so scale * 128 is the *)
(* integer the model stores.                                               *)
(***************************************************************************)
EXTENDS Integers, Sequences, FiniteSets, TLC

VARIABLES
    \* ---- tile-to-glyph mapper (glyphMap.ts) and its realization (createScene)
    mask,                 \* GlyphMask handed to mapTilesToGlyph
    mapTileSize,          \* tileSize handed to mapTilesToGlyph
    atlasData,            \* AtlasData.tiles handed to mapTilesToGlyph
    shuffledForeground,   \* local of mapTilesToGlyph, kept for inspection
    shuffledBackground,   \* local of mapTilesToGlyph, kept for inspection
    mappings,             \* TileMapping[] returned by mapTilesToGlyph
    realized,             \* per mapping, the atlas tile whose texture createScene binds
    mapPc,                \* "input" | "mapped" | "realized"
    \* ---- atlas layout as a function of the photo list (buildAtlas)
    layoutN,              \* number of photo rows returned by the query
    layoutMissing,        \* ids of the photos whose variant file is missing
    layoutDoc,            \* the metadata document computed for them
    layoutPc,             \* "input" | "built"
    \* ---- atlas store: the server's buildAtlas requests and a loadAtlas reader
    dbPhotos,             \* ids of the rows of table photos
    variantFiles,         \* ids of the photos whose <name>_512.webp file exists
    atlasImage,           \* content of atlas.webp
    atlasJson,            \* content of atlas.json
    atlasRow,             \* the row of table atlas
    builds,               \* per rebuild request: position and locals of buildAtlas
    reader,               \* one client's loadAtlas: position, data, baseTexture
    \* ---- render/animation engine (PixiTicker) and its host
    phase,                \* progress of init: "constructed" | "font" | "surface" | "atlas" | "ready" | "failed"
    app,                  \* this.app is set
    atlas,                \* this.atlas is set
    container,            \* this.container is set
    containerX,           \* this.container.x
    stage,                \* children of app.stage: containers, overlays (visible flags), listeners
    sprites,              \* this.sprites: x, y, scale, zIndex, texture, filtered
    originalSpriteData,   \* the rest-state table, per sprite
    config,               \* this.config
    screen,               \* app.screen
    isScrolling,          \* this.isScrolling
    scrollOffset,         \* this.scrollOffset
    hoveredSprite,        \* this.hoveredSprite, 0 for null
    now,                  \* performance.now()
    lastTime,             \* this.lastTime
    frameCount,           \* this.frameCount
    fpsTimer,             \* this.fpsTimer, in ms
    currentFps,           \* this.currentFps, as frames over ms
    fpsUpdates,           \* number of onFpsUpdate calls
    fpsReported,          \* argument of the last onFpsUpdate call
    frameDue,             \* an animation frame is due
    anims,                \* pending animateSprite closures, in request order
    timers,               \* due times of the pending resume timers
    tickerOn,             \* animate is registered with a running app.ticker
    resizeListener,       \* the listener init added to window is registered
    readyCalls,           \* number of onReady calls
    fontLoaded,           \* the font load succeeded
    destroyed,            \* the host has called destroy
    settled,              \* the awaits of init that have resolved, in order
    initError,            \* what init rethrew: "none" | "surface" | "atlas" | "ticker"
    destroyCalls,         \* number of destroy calls
    \* ---- batch operations of the server: handleUpload, reindexPhotos
    batchKind,            \* "upload" | "reindex"
    batchN,               \* number of files of the batch (req.files, readdir)
    batchFault,           \* per file, where processPhoto throws: "none" | "analyze" | "variants"
    batchSkipped,         \* files reindexPhotos passes over: no image extension, or a row exists
    batchPos,             \* files the loop has passed
    batchAttempted,       \* files handed to processPhoto
    batchRows,            \* files for which the batch inserted a row in table photos
    batchVariants,        \* files whose variants were all generated
    batchResults,         \* results array of handleUpload
    batchCount,           \* count of reindexPhotos
    batchResponse,        \* the HTTP answer, status 0 while none was sent
    \* ---- image analysis (calculateLuma, calculateSaturation)
    avgR,                 \* rounded channel means of analyzeImage
    avgG,
    avgB,
    luma,                 \* avg_luma, in thousandths
    saturation,           \* avg_saturation, as a fraction num/den
    analyzePc,            \* "input" | "done"
    \* ---- variants of a photo over repeated processing (generateVariants)
    retryNext,            \* number of original files stored so far
    retryRows,            \* files with a row in table photos
    retryEntries,         \* per file, its rows in photo_variants, as <<size, format>>
    retryWritten,         \* per file, the variant files on disk, as <<size, format>>
    retryOutcome,         \* per file, what the latest caller was told
    \* ---- sessions of the admin API (handleLogin, handleLogout, requireAuth)
    authIssued,           \* number of tokens createSession has generated
    authSessions,         \* tokens with an unexpired row in table sessions
    authJar,              \* the session cookie in the client's cookie jar, "" when none
    authStored,           \* the client's localStorage admin_token, "" when none
    authLoggedOut,        \* tokens presented with an answered logout request
    authStatus,           \* status of the latest answer, 0 before the first
    \* ---- settings reset (resetSettings)
    settingsTable,        \* table settings: "defaults" | "custom" | "empty"
    resetPc,              \* per request: "idle" | "importing" | "returned"
    resetDbOpen,          \* per request: the connection of its getDb() is open
    resetResponse,        \* per request: the answer, status 0 while none was sent
    resetRejected         \* per request: its promise rejected with no handler

mapVars == <<mask, mapTileSize, atlasData, shuffledForeground, shuffledBackground,
             mappings, realized, mapPc>>
layoutVars == <<layoutN, layoutMissing, layoutDoc, layoutPc>>

atlasVars == <<dbPhotos, variantFiles, atlasImage, atlasJson, atlasRow, builds, reader>>

engineVars == <<phase, app, atlas, container, containerX, stage, sprites,
                originalSpriteData, config, screen, isScrolling, scrollOffset,
                hoveredSprite, now, lastTime, frameCount, fpsTimer, currentFps,
                fpsUpdates, fpsReported, frameDue, anims, timers, tickerOn, resizeListener,
                readyCalls, fontLoaded, destroyed, settled, initError,
                destroyCalls>>

batchVars == <<batchKind, batchN, batchFault, batchSkipped, batchPos, batchAttempted,
               batchRows, batchVariants, batchResults, batchCount, batchResponse>>

analyzeVars == <<avgR, avgG, avgB, luma, saturation, analyzePc>>

retryVars == <<retryNext, retryRows, retryEntries, retryWritten, retryOutcome>>

authVars == <<authIssued, authSessions, authJar, authStored, authLoggedOut, authStatus>>

resetVars == <<settingsTable, resetPc, resetDbOpen, resetResponse, resetRejected>>

vars == <<mapVars, layoutVars, atlasVars, engineVars, batchVars, analyzeVars, retryVars, authVars, resetVars>>

----------------------------------------------------------------------------
(* Arithmetic helpers (Math.ceil, Math.min, Math.abs, Math.sqrt) *)

Min(a, b) == IF a <= b THEN a ELSE b
Max(a, b) == IF a >= b THEN a ELSE b
Abs(a) == IF a < 0 THEN -a ELSE a
CeilDiv(a, b) == (a + b - 1) \div b
\* Math.ceil(Math.sqrt(n)) for n >= 0
CeilSqrt(n) == CHOOSE k \in 0..n : k * k >= n /\ (k = 0 \/ (k - 1) * (k - 1) < n)

----------------------------------------------------------------------------
(* The photos of the end-to-end scenario: luma [200,180,50,30] and         *)
(* saturation [0.8,0.6,0.2,0.1]; photo p has id p.                         *)

PhotoLuma == <<200, 180, 50, 30>>
PhotoSat == <<80, 60, 20, 10>>
NumPhotos == Len(PhotoLuma)
PhotoIds == 1..NumPhotos

----------------------------------------------------------------------------
(*                       TILE-TO-GLYPH MAPPER                              *)

MaxMaskW == 3
MaskHeights == {1, 2}
TileSizes == {1, 2}

\* All masks of the bounded sizes: pixels is row-major, one 0/1 per pixel.
Masks ==
    UNION { { [width |-> w, height |-> h, pixels |-> p] :
                p \in [1..(w * h) -> {0, 1}] } :
            <<w, h>> \in (1..MaxMaskW) \X MaskHeights }

\* AtlasData.tiles of an atlas holding the first n scenario photos, in the
\* order buildAtlas writes them (luma descending).
AtlasTilesOf(n) ==
    [i \in 1..n |-> [id |-> i, luma |-> PhotoLuma[i], saturation |-> PhotoSat[i]]]

\* a.luma * 0.7 + a.saturation * 100 * 0.3, times 10
ForegroundScore(t) == t.luma * 7 + t.saturation * 3
\* a.luma * 0.5 + (1 - a.saturation) * 100 * 0.5, times 10
BackgroundScore(t) == t.luma * 5 + (100 - t.saturation) * 5

\* Array.prototype.sort with a numeric comparator on key[] ascending; the sort
\* is stable, so equal keys keep their order.
SortByKey(seq, key) ==
    LET n == Len(seq)
        rank(i) == Cardinality({j \in 1..n : key[j] < key[i]
                                             \/ (key[j] = key[i] /\ j < i)}) + 1
    IN  [r \in 1..n |-> seq[CHOOSE i \in 1..n : rank(i) = r]]

\* [...tiles].sort((a, b) => scoreB - scoreA): descending foreground score
SortForeground(tiles) ==
    SortByKey(tiles, [i \in 1..Len(tiles) |-> -ForegroundScore(tiles[i])])

\* [...tiles].sort((a, b) => scoreA - scoreB): ascending background score
SortBackground(tiles) ==
    SortByKey(tiles, [i \in 1..Len(tiles) |-> BackgroundScore(tiles[i])])

\* The draws Math.floor(Math.random() * (i + 1)) of one shuffle of n elements:
\* for every i from n-1 down to 1 (0-based), some j in 0..i.
RandomDraws(n) == { r \in [1..(n - 1) -> 0..(n - 1)] : \A i \in 1..(n - 1) : r[i] <= i }

Swap(arr, a, b) == [arr EXCEPT ![a] = arr[b], ![b] = arr[a]]

\* The Fisher-Yates loop from 0-based position i downwards.
RECURSIVE ShuffleFrom(_, _, _)
ShuffleFrom(arr, i, rnd) ==
    IF i <= 0 THEN arr
    ELSE ShuffleFrom(Swap(arr, i + 1, rnd[i] + 1), i - 1, rnd)

shuffleArray(array, rnd) == ShuffleFrom(array, Len(array) - 1, rnd)

\* SelectIndex without the wrap: the counter itself is stored.
SelectIndexNoWrap(counter, ordering) == counter

\* The index mapTilesToGlyph stores for a cell: the round-robin counter of the
\* cell's kind modulo the length of that kind's ordering.
SelectIndex(counter, ordering) == counter % Len(ordering)

\* One counter advanced by the cells of both kinds.
AdvanceCounterShared(counter, selected) == counter + 1

\* foregroundIndex++ / backgroundIndex++: a counter advances only in the
\* branch of its own kind.
AdvanceCounter(counter, selected) == IF selected THEN counter + 1 ELSE counter

\* The nested ty/tx loops, as one loop over the row-major cell number c.
RECURSIVE MapLoop(_, _, _, _, _, _, _, _)
MapLoop(m, tileSize, fgOrder, bgOrder, c, foregroundIndex, backgroundIndex, acc) ==
    LET tilesX == CeilDiv(m.width, tileSize)
        tilesY == CeilDiv(m.height, tileSize)
    IN  IF c >= tilesX * tilesY THEN acc
        ELSE
          LET tx == c % tilesX
              ty == c \div tilesX
              x == tx * tileSize
              y == ty * tileSize
              sampleX == Min(x + (tileSize \div 2), m.width - 1)
              sampleY == Min(y + (tileSize \div 2), m.height - 1)
              maskValue == m.pixels[sampleY * m.width + sampleX + 1]
              isForeground == (maskValue = 1)
              tileIndex == IF isForeground
                           THEN SelectIndex(foregroundIndex, fgOrder)
                           ELSE SelectIndex(backgroundIndex, bgOrder)
          IN  MapLoop(m, tileSize, fgOrder, bgOrder, c + 1,
                      AdvanceCounter(foregroundIndex, isForeground),
                      AdvanceCounter(backgroundIndex, ~isForeground),
                      Append(acc, [x |-> x, y |-> y, tileIndex |-> tileIndex,
                                   isForeground |-> isForeground]))

mapTilesToGlyph(m, tileSize, fgOrder, bgOrder) ==
    MapLoop(m, tileSize, fgOrder, bgOrder, 0, 0, 0, <<>>)

\* createScene: const texture = this.atlas.tiles[mapping.tileIndex], where
\* atlas.tiles[k] is the texture loadAtlas cut for data.tiles[k].
TextureFor(tiles, mapping) == tiles[mapping.tileIndex + 1]

MapInit ==
    /\ mask \in Masks
    /\ mapTileSize \in TileSizes
    /\ atlasData \in { AtlasTilesOf(n) : n \in PhotoIds }
    /\ shuffledForeground = <<>>
    /\ shuffledBackground = <<>>
    /\ mappings = <<>>
    /\ realized = <<>>
    /\ mapPc = "input"

MapIdle ==
    /\ mask = [width |-> 1, height |-> 1, pixels |-> <<0>>]
    /\ mapTileSize = 1
    /\ atlasData = AtlasTilesOf(1)
    /\ shuffledForeground = <<>>
    /\ shuffledBackground = <<>>
    /\ mappings = <<>>
    /\ realized = <<>>
    /\ mapPc = "input"

\* One call of mapTilesToGlyph with the random draws of its two shuffles.
MapTiles ==
    /\ mapPc = "input"
    /\ \E r1 \in RandomDraws(Len(atlasData)), r2 \in RandomDraws(Len(atlasData)) :
         LET fg == shuffleArray(SortForeground(atlasData), r1)
             bg == shuffleArray(SortBackground(atlasData), r2)
         IN  /\ shuffledForeground' = fg
             /\ shuffledBackground' = bg
             /\ mappings' = mapTilesToGlyph(mask, mapTileSize, fg, bg)
    /\ mapPc' = "mapped"
    /\ UNCHANGED <<mask, mapTileSize, atlasData, realized>>
    /\ UNCHANGED <<layoutVars, atlasVars, engineVars, batchVars, analyzeVars, retryVars, authVars, resetVars>>

\* createScene's loop over the mappings: the texture bound to each sprite.
RealizeSprites ==
    /\ mapPc = "mapped"
    /\ realized' = [c \in 1..Len(mappings) |-> TextureFor(atlasData, mappings[c])]
    /\ mapPc' = "realized"
    /\ UNCHANGED <<mask, mapTileSize, atlasData, shuffledForeground,
                   shuffledBackground, mappings>>
    /\ UNCHANGED <<layoutVars, atlasVars, engineVars, batchVars, analyzeVars, retryVars, authVars, resetVars>>

MapNext == MapTiles \/ RealizeSprites

----------------------------------------------------------------------------
(*                 ATLAS LAYOUT (buildAtlas, lines 377-439)                *)

ATLAS_TILE_SIZE == 128
ATLAS_MAX_SIZE == 4096

TilesPerRow(n) == CeilSqrt(n)
AtlasWidth(n) == Min(TilesPerRow(n) * ATLAS_TILE_SIZE, ATLAS_MAX_SIZE)
AtlasHeight(n) == CeilDiv(n, TilesPerRow(n)) * ATLAS_TILE_SIZE

\* A tile entry whose x is kept inside the maximum atlas width.
AtlasTileClamped(i, tilesPerRow, id) ==
    [id |-> id,
     x |-> Min((i % tilesPerRow) * ATLAS_TILE_SIZE, ATLAS_MAX_SIZE - ATLAS_TILE_SIZE),
     y |-> (i \div tilesPerRow) * ATLAS_TILE_SIZE,
     width |-> ATLAS_TILE_SIZE,
     height |-> ATLAS_TILE_SIZE]

\* The tile entry pushed for photo i (0-based) at row width tilesPerRow; id is
\* the photo's id.
AtlasTile(i, tilesPerRow, id) ==
    [id |-> id,
     x |-> (i % tilesPerRow) * ATLAS_TILE_SIZE,
     y |-> (i \div tilesPerRow) * ATLAS_TILE_SIZE,
     width |-> ATLAS_TILE_SIZE,
     height |-> ATLAS_TILE_SIZE]

\* Does the loop push a tile for this photo (existsSync(variantPath))?
VariantExists(id, files) == id \in files

\* The loop body that pushes a tile although the variant file is missing.
LoopStepZeroFill(st, i, tilesPerRow, id, exists) ==
    LET tile == AtlasTile(i, tilesPerRow, id)
    IN  [compositeInputs |-> Append(st.compositeInputs,
                                    [input |-> id, top |-> tile.y, left |-> tile.x]),
         tiles |-> Append(st.tiles, tile)]

\* One iteration of the loop over photos (0-based i): the composite input and
\* the tile entry are pushed when the variant file exists, else the photo is
\* skipped.  st holds compositeInputs and atlasData.tiles.
LoopStep(st, i, tilesPerRow, id, exists) ==
    LET tile == AtlasTile(i, tilesPerRow, id)
    IN  IF exists
        THEN [compositeInputs |-> Append(st.compositeInputs,
                                         [input |-> id, top |-> tile.y, left |-> tile.x]),
              tiles |-> Append(st.tiles, tile)]
        ELSE st

EmptyLoopState == [compositeInputs |-> <<>>, tiles |-> <<>>]

\* The metadata document of a build over photo ids photos[1..n], given the set
\* of ids whose variant file exists.  What iteration k pushes depends only on
\* k, so tiles is the concatenation, in order, of what each iteration pushes
\* on an empty list.
AtlasDocOf(photos, files) ==
    LET n == Len(photos)
        tilesPerRow == TilesPerRow(n)
        pushed(k) == LoopStep(EmptyLoopState, k - 1, tilesPerRow, photos[k],
                              VariantExists(photos[k], files)).tiles
        Pushes(k) == Len(pushed(k)) > 0
        placed == SelectSeq([k \in 1..n |-> k], Pushes)
    IN  [tiles |-> [j \in 1..Len(placed) |-> pushed(placed[j])[1]],
         width |-> AtlasWidth(n),
         height |-> AtlasHeight(n),
         tileSize |-> ATLAS_TILE_SIZE]

NoDoc == [tiles |-> <<>>, width |-> 0, height |-> 0, tileSize |-> 0]

\* The photo counts laid out: every small count, and the counts around the
\* first one whose row is wider than the maximum atlas width.
MaxLayoutSmall == 6
WideCount == (ATLAS_MAX_SIZE \div ATLAS_TILE_SIZE) * (ATLAS_MAX_SIZE \div ATLAS_TILE_SIZE)
LayoutCounts == (1..MaxLayoutSmall) \cup {WideCount, WideCount + 1}

\* Photo ids are 1..layoutN in query order; layoutMissing holds the ids whose
\* variant file is missing.
LayoutInit ==
    /\ layoutN \in LayoutCounts
    /\ layoutMissing \in IF layoutN <= MaxLayoutSmall
                         THEN SUBSET (1..layoutN)
                         ELSE {{}, {1}, {layoutN}}
    /\ layoutDoc = NoDoc
    /\ layoutPc = "input"

LayoutIdle ==
    /\ layoutN = 1
    /\ layoutMissing = {}
    /\ layoutDoc = NoDoc
    /\ layoutPc = "input"

LayoutBuild ==
    /\ layoutPc = "input"
    /\ layoutDoc' = AtlasDocOf([k \in 1..layoutN |-> k], (1..layoutN) \ layoutMissing)
    /\ layoutPc' = "built"
    /\ UNCHANGED <<layoutN, layoutMissing>>
    /\ UNCHANGED <<mapVars, atlasVars, engineVars, batchVars, analyzeVars, retryVars, authVars, resetVars>>

LayoutNext == LayoutBuild

----------------------------------------------------------------------------
(*        ATLAS STORE: buildAtlas requests and a loadAtlas reader          *)
(*                                                                         *)
(* Every await of buildAtlas and loadAtlas is a point where the other      *)
(* requests and the reader may run.  A file write is one step.  File and   *)
(* row contents carry the number of the build that wrote them.             *)

MaxBuilds == 2
BuildIds == 1..MaxBuilds

\* Row id k of table photos (AUTOINCREMENT) holds scenario photo UploadOrder[k].
UploadOrder == <<3, 1>>
DbLuma(id) == PhotoLuma[UploadOrder[id]]
DbSat(id) == PhotoSat[UploadOrder[id]]

\* The ids of set S in ascending order.
IdsAscending(S) ==
    [k \in 1..Cardinality(S) |->
        CHOOSE id \in S : Cardinality({j \in S : j < id}) = k - 1]

\* SELECT ... FROM photos ORDER BY luma DESC, saturation DESC
QueryPhotos(db) ==
    LET rows == IdsAscending(db)
    IN  SortByKey(rows, [k \in 1..Len(rows) |-> -(DbLuma(rows[k]) * 101 + DbSat(rows[k]))])

NoFile == [build |-> 0]
NoRow == [build |-> 0]
IdleBuild == [pc |-> "idle", photos |-> <<>>, i |-> 0, compositeInputs |-> <<>>,
              tiles |-> <<>>, response |-> 0]
IdleReader == [pc |-> "idle", data |-> NoFile, baseTexture |-> NoFile]

AtlasInit ==
    /\ dbPhotos = {}
    /\ variantFiles = {}
    /\ atlasImage = NoFile
    /\ atlasJson = NoFile
    /\ atlasRow = NoRow
    /\ builds = [b \in BuildIds |-> IdleBuild]
    /\ reader = IdleReader

AtlasIdle == AtlasInit

\* processPhoto: INSERT INTO photos, the next AUTOINCREMENT id.
ProcessPhotoInsert ==
    /\ Cardinality(dbPhotos) < Len(UploadOrder)
    /\ dbPhotos' = dbPhotos \cup {Cardinality(dbPhotos) + 1}
    /\ UNCHANGED <<variantFiles, atlasImage, atlasJson, atlasRow, builds, reader>>
    /\ UNCHANGED <<mapVars, layoutVars, engineVars, batchVars, analyzeVars, retryVars, authVars, resetVars>>

\* generateVariants: writeFile of the photo's 512px webp variant.
WriteVariant512(p) ==
    /\ p \in dbPhotos \ variantFiles
    /\ variantFiles' = variantFiles \cup {p}
    /\ UNCHANGED <<dbPhotos, atlasImage, atlasJson, atlasRow, builds, reader>>
    /\ UNCHANGED <<mapVars, layoutVars, engineVars, batchVars, analyzeVars, retryVars, authVars, resetVars>>

\* The empty check that never finds the list empty.
NoPhotosNever(photos) == FALSE

\* Is the photo list empty (photos.length === 0)?
NoPhotos(photos) == Len(photos) = 0

\* handleRebuildAtlas -> buildAtlas up to the loop: the query, the empty check
\* (the throw is caught by the handler, which answers 500).
BuildStart(b) ==
    /\ builds[b].pc = "idle"
    /\ LET photos == QueryPhotos(dbPhotos)
       IN  builds' = [builds EXCEPT ![b] =
             IF NoPhotos(photos)
             THEN [IdleBuild EXCEPT !.pc = "failed", !.response = 500]
             ELSE [@ EXCEPT !.pc = "tiles", !.photos = photos, !.i = 0]]
    /\ UNCHANGED <<dbPhotos, variantFiles, atlasImage, atlasJson, atlasRow, reader>>
    /\ UNCHANGED <<mapVars, layoutVars, engineVars, batchVars, analyzeVars, retryVars, authVars, resetVars>>

\* One iteration of the loop over photos; the awaited resize of a present
\* variant ends the step.
BuildTile(b) ==
    /\ builds[b].pc = "tiles"
    /\ builds[b].i < Len(builds[b].photos)
    /\ LET bd == builds[b]
           id == bd.photos[bd.i + 1]
           st == LoopStep([compositeInputs |-> bd.compositeInputs, tiles |-> bd.tiles],
                          bd.i, TilesPerRow(Len(bd.photos)), id,
                          VariantExists(id, variantFiles))
       IN  builds' = [builds EXCEPT ![b] =
             [@ EXCEPT !.i = bd.i + 1,
                       !.compositeInputs = st.compositeInputs,
                       !.tiles = st.tiles]]
    /\ UNCHANGED <<dbPhotos, variantFiles, atlasImage, atlasJson, atlasRow, reader>>
    /\ UNCHANGED <<mapVars, layoutVars, engineVars, batchVars, analyzeVars, retryVars, authVars, resetVars>>

\* await sharp(...).composite(compositeInputs).toFile(atlasImagePath)
BuildWriteImage(b) ==
    /\ builds[b].pc = "tiles"
    /\ builds[b].i = Len(builds[b].photos)
    /\ atlasImage' = [build |-> b, composite |-> builds[b].compositeInputs,
                      width |-> AtlasWidth(Len(builds[b].photos)),
                      height |-> AtlasHeight(Len(builds[b].photos))]
    /\ builds' = [builds EXCEPT ![b].pc = "json"]
    /\ UNCHANGED <<dbPhotos, variantFiles, atlasJson, atlasRow, reader>>
    /\ UNCHANGED <<mapVars, layoutVars, engineVars, batchVars, analyzeVars, retryVars, authVars, resetVars>>

\* await writeFile(atlasJsonPath, JSON.stringify(atlasData))
BuildWriteJson(b) ==
    /\ builds[b].pc = "json"
    /\ atlasJson' = [build |-> b,
                     tiles |-> builds[b].tiles,
                     width |-> AtlasWidth(Len(builds[b].photos)),
                     height |-> AtlasHeight(Len(builds[b].photos)),
                     tileSize |-> ATLAS_TILE_SIZE]
    /\ builds' = [builds EXCEPT ![b].pc = "row"]
    /\ UNCHANGED <<dbPhotos, variantFiles, atlasImage, atlasRow, reader>>
    /\ UNCHANGED <<mapVars, layoutVars, engineVars, batchVars, analyzeVars, retryVars, authVars, resetVars>>

\* DELETE FROM atlas; INSERT INTO atlas ...; the handler answers success.
BuildUpdateRow(b) ==
    /\ builds[b].pc = "row"
    /\ atlasRow' = [build |-> b,
                    tile_count |-> Len(builds[b].photos),
                    atlas_width |-> AtlasWidth(Len(builds[b].photos)),
                    atlas_height |-> AtlasHeight(Len(builds[b].photos))]
    /\ builds' = [builds EXCEPT ![b] = [IdleBuild EXCEPT !.pc = "done", !.response = 200]]
    /\ UNCHANGED <<dbPhotos, variantFiles, atlasImage, atlasJson, reader>>
    /\ UNCHANGED <<mapVars, layoutVars, engineVars, batchVars, analyzeVars, retryVars, authVars, resetVars>>

\* loadAtlas: fetch(jsonPath) and response.json(); a missing file is not ok.
ReaderFetchJson ==
    /\ reader.pc \in {"idle", "done", "failed"}
    /\ reader' = IF atlasJson = NoFile
                 THEN [IdleReader EXCEPT !.pc = "failed"]
                 ELSE [IdleReader EXCEPT !.pc = "image", !.data = atlasJson]
    /\ UNCHANGED <<dbPhotos, variantFiles, atlasImage, atlasJson, atlasRow, builds>>
    /\ UNCHANGED <<mapVars, layoutVars, engineVars, batchVars, analyzeVars, retryVars, authVars, resetVars>>

\* loadAtlas: PIXI.Assets.load(imagePath), then one texture per data.tiles entry.
ReaderLoadImage ==
    /\ reader.pc = "image"
    /\ reader' = IF atlasImage = NoFile
                 THEN [reader EXCEPT !.pc = "failed"]
                 ELSE [reader EXCEPT !.pc = "done", !.baseTexture = atlasImage]
    /\ UNCHANGED <<dbPhotos, variantFiles, atlasImage, atlasJson, atlasRow, builds>>
    /\ UNCHANGED <<mapVars, layoutVars, engineVars, batchVars, analyzeVars, retryVars, authVars, resetVars>>

AtlasNext ==
    \/ ProcessPhotoInsert
    \/ \E p \in 1..Len(UploadOrder) : WriteVariant512(p)
    \/ \E b \in BuildIds : BuildStart(b)
    \/ \E b \in BuildIds : BuildTile(b)
    \/ \E b \in BuildIds : BuildWriteImage(b)
    \/ \E b \in BuildIds : BuildWriteJson(b)
    \/ \E b \in BuildIds : BuildUpdateRow(b)
    \/ ReaderFetchJson
    \/ ReaderLoadImage

----------------------------------------------------------------------------
(*        BATCH OPERATIONS: handleUpload and reindexPhotos                 *)
(*                                                                         *)
(* A batch is a list of files, named 1..batchN in the order the loop       *)
(* visits them.  processPhoto throws for a file when sharp cannot read it  *)
(* (analyzeImage) or when a variant cannot be written (generateVariants).  *)

\* Files per batch.
MaxBatch == 3

BatchFiles == 1..batchN

Faults == {"none", "analyze", "variants"}

\* processPhoto on one file: analyzeImage, INSERT INTO photos, then
\* generateVariants.  The row is inserted before the variants are written.
processPhoto(rows, variants, file, fault) ==
    [ok |-> fault = "none",
     rows |-> IF fault = "analyze" THEN rows ELSE rows \cup {file},
     variants |-> IF fault = "none" THEN variants \cup {file} ELSE variants]

NoResponse == [status |-> 0, processed |-> 0]

BatchInit ==
    /\ batchKind \in {"upload", "reindex"}
    /\ batchN \in 1..MaxBatch
    /\ batchFault \in [1..batchN -> Faults]
    /\ batchSkipped \in SUBSET (1..batchN)
    /\ batchKind = "upload" => batchSkipped = {}
    /\ batchPos = 0
    /\ batchAttempted = {}
    /\ batchRows = {}
    /\ batchVariants = {}
    /\ batchResults = <<>>
    /\ batchCount = 0
    /\ batchResponse = NoResponse

BatchIdle ==
    /\ batchKind = "upload"
    /\ batchN = 1
    /\ batchFault = [f \in 1..1 |-> "none"]
    /\ batchSkipped = {}
    /\ batchPos = 0
    /\ batchAttempted = {}
    /\ batchRows = {}
    /\ batchVariants = {}
    /\ batchResults = <<>>
    /\ batchCount = 0
    /\ batchResponse = NoResponse

\* One pass of the loop of handleUpload: processPhoto inside try/catch, and
\* a result entry pushed either way.
handleUploadFile ==
    /\ batchKind = "upload"
    /\ batchResponse.status = 0
    /\ batchPos < batchN
    /\ LET file == batchPos + 1
           r == processPhoto(batchRows, batchVariants, file, batchFault[file])
       IN  /\ batchRows' = r.rows
           /\ batchVariants' = r.variants
           /\ batchAttempted' = batchAttempted \cup {file}
           /\ batchResults' = Append(batchResults, [file |-> file, success |-> r.ok])
           /\ batchPos' = file
    /\ UNCHANGED <<batchKind, batchN, batchFault, batchSkipped, batchCount, batchResponse>>
    /\ UNCHANGED <<mapVars, layoutVars, atlasVars, engineVars, analyzeVars, retryVars, authVars, resetVars>>

\* The answer of handleUpload after the loop.
handleUploadRespond ==
    /\ batchKind = "upload"
    /\ batchResponse.status = 0
    /\ batchPos = batchN
    /\ batchResponse' =
          [status |-> 200,
           processed |-> Len(SelectSeq(batchResults, LAMBDA r : r.success))]
    /\ UNCHANGED <<batchKind, batchN, batchFault, batchSkipped, batchPos, batchAttempted,
                   batchRows, batchVariants, batchResults, batchCount>>
    /\ UNCHANGED <<mapVars, layoutVars, atlasVars, engineVars, analyzeVars, retryVars, authVars, resetVars>>

\* One pass of the loop of reindexPhotos.  processPhoto is awaited with no
\* try/catch around it: when it throws, the loop is left and
\* handleReindexPhotos answers 500 from its catch.
reindexPhotosFile ==
    /\ batchKind = "reindex"
    /\ batchResponse.status = 0
    /\ batchPos < batchN
    /\ LET file == batchPos + 1
           r == processPhoto(batchRows, batchVariants, file, batchFault[file])
       IN  IF file \in batchSkipped
           THEN /\ batchPos' = file
                /\ UNCHANGED <<batchRows, batchVariants, batchAttempted, batchCount,
                               batchResponse>>
           ELSE /\ batchRows' = r.rows
                /\ batchVariants' = r.variants
                /\ batchAttempted' = batchAttempted \cup {file}
                /\ batchPos' = file
                /\ batchCount' = IF r.ok THEN batchCount + 1 ELSE batchCount
                /\ batchResponse' = IF r.ok THEN batchResponse
                                    ELSE [status |-> 500, processed |-> 0]
    /\ UNCHANGED <<batchKind, batchN, batchFault, batchSkipped, batchResults>>
    /\ UNCHANGED <<mapVars, layoutVars, atlasVars, engineVars, analyzeVars, retryVars, authVars, resetVars>>

\* The answer of handleReindexPhotos once reindexPhotos has returned.
handleReindexPhotosRespond ==
    /\ batchKind = "reindex"
    /\ batchResponse.status = 0
    /\ batchPos = batchN
    /\ batchResponse' = [status |-> 200, processed |-> batchCount]
    /\ UNCHANGED <<batchKind, batchN, batchFault, batchSkipped, batchPos, batchAttempted,
                   batchRows, batchVariants, batchResults, batchCount>>
    /\ UNCHANGED <<mapVars, layoutVars, atlasVars, engineVars, analyzeVars, retryVars, authVars, resetVars>>

BatchNext ==
    \/ handleUploadFile
    \/ handleUploadRespond
    \/ reindexPhotosFile
    \/ handleReindexPhotosRespond

----------------------------------------------------------------------------
(*        IMAGE ANALYSIS: calculateLuma and calculateSaturation            *)
(*                                                                         *)
(* Luma is held in thousandths, so the weights 0.299, 0.587 and 0.114 are  *)
(* the integers 299, 587 and 114.  Saturation is held as the fraction      *)
(* num/den the code divides, with den > 0; the early return 0 is 0/1.      *)

\* Math.round(stats.channels[i].mean) of an 8-bit channel.
ChannelSamples == {0, 1, 2, 64, 127, 128, 200, 254, 255}

Max3(a, b, c) == Max(a, Max(b, c))
Min3(a, b, c) == Min(a, Min(b, c))

\* Weights that do not add up to one.
calculateLumaMisweighted(r, g, b) == 299 * r + 587 * g + 144 * b

calculateLuma(r, g, b) == 299 * r + 587 * g + 114 * b

calculateSaturation(r, g, b) ==
    LET max == Max3(r, g, b)
        min == Min3(r, g, b)
        delta == max - min
    IN  IF max = 0 THEN [num |-> 0, den |-> 1]
        ELSE [num |-> delta, den |-> max]

AnalyzeInit ==
    /\ avgR \in ChannelSamples
    /\ avgG \in ChannelSamples
    /\ avgB \in ChannelSamples
    /\ luma = 0
    /\ saturation = [num |-> 0, den |-> 1]
    /\ analyzePc = "input"

AnalyzeIdle ==
    /\ avgR = 0
    /\ avgG = 0
    /\ avgB = 0
    /\ luma = 0
    /\ saturation = [num |-> 0, den |-> 1]
    /\ analyzePc = "input"

\* analyzeImage from the rounded channel means on.
analyzeImage ==
    /\ analyzePc = "input"
    /\ luma' = calculateLuma(avgR, avgG, avgB)
    /\ saturation' = calculateSaturation(avgR, avgG, avgB)
    /\ analyzePc' = "done"
    /\ UNCHANGED <<avgR, avgG, avgB>>
    /\ UNCHANGED <<mapVars, layoutVars, atlasVars, engineVars, batchVars, retryVars, authVars, resetVars>>

AnalyzeNext == analyzeImage

----------------------------------------------------------------------------
(*        VARIANTS OVER REPEATED PROCESSING: generateVariants              *)
(*                                                                         *)
(* Original files are named 1, 2, ... in the order they are stored.  An    *)
(* encode is one sharp(...).toBuffer() call of generateVariants; they are  *)
(* numbered 1..9 in the order the loop makes them.  A fault is the number  *)
(* of the encode that throws, 0 when none does.                            *)

\* Original files stored.
MaxRetryFiles == 2

VARIANT_SIZES == <<256, 512, 1024>>

VariantFormats == <<"avif", "webp", "jpeg">>

AllVariants == {<<VARIANT_SIZES[s], VariantFormats[f]>> :
                    s \in 1..Len(VARIANT_SIZES), f \in 1..Len(VariantFormats)}

EncodeCount == Len(VARIANT_SIZES) * Len(VariantFormats)

\* The number of the encode of format f of the s-th size.
EncodeNo(s, f) == (s - 1) * Len(VariantFormats) + f

\* generateVariants with encode failAt throwing: every encode before it has
\* written its file; the three INSERTs of a size run after the three encodes
\* of that size, so a size has rows only when all its encodes succeeded.
generateVariants(failAt) ==
    [ok |-> failAt = 0,
     written |-> {<<VARIANT_SIZES[s], VariantFormats[f]>> :
                     <<s, f>> \in {e \in (1..Len(VARIANT_SIZES)) \X (1..Len(VariantFormats)) :
                                      failAt = 0 \/ EncodeNo(e[1], e[2]) < failAt}},
     entries |-> {<<VARIANT_SIZES[s], VariantFormats[f]>> :
                     <<s, f>> \in {e \in (1..Len(VARIANT_SIZES)) \X (1..Len(VariantFormats)) :
                                      failAt = 0 \/ EncodeNo(e[1], Len(VariantFormats)) < failAt}}]

RetryFileIds == 1..MaxRetryFiles

RetryInit ==
    /\ retryNext = 0
    /\ retryRows = {}
    /\ retryEntries = [f \in RetryFileIds |-> {}]
    /\ retryWritten = [f \in RetryFileIds |-> {}]
    /\ retryOutcome = [f \in RetryFileIds |-> "none"]

RetryIdle == RetryInit

\* processPhoto on a newly stored file (an upload, which multer stores under
\* a fresh name, or a file reindexPhotos finds without a row): the row is
\* inserted, then generateVariants runs; its rejection reaches the caller.
ProcessNewPhoto(failAt) ==
    /\ retryNext < MaxRetryFiles
    /\ LET file == retryNext + 1
           g == generateVariants(failAt)
       IN  /\ retryNext' = file
           /\ retryRows' = retryRows \cup {file}
           /\ retryEntries' = [retryEntries EXCEPT ![file] = g.entries]
           /\ retryWritten' = [retryWritten EXCEPT ![file] = g.written]
           /\ retryOutcome' = [retryOutcome EXCEPT ![file] = IF g.ok THEN "ok" ELSE "failed"]
    /\ UNCHANGED <<mapVars, layoutVars, atlasVars, engineVars, batchVars, analyzeVars, authVars, resetVars>>

\* reindexPhotos passing a file that has a row: processPhoto is not called
\* for it.  (A file without a row is a new photo, see ProcessNewPhoto.)
ReindexSamePhoto(file) ==
    /\ file \in retryRows
    /\ retryOutcome' = [retryOutcome EXCEPT ![file] = "skipped"]
    /\ UNCHANGED <<retryNext, retryRows, retryEntries, retryWritten>>
    /\ UNCHANGED <<mapVars, layoutVars, atlasVars, engineVars, batchVars, analyzeVars, authVars, resetVars>>

\* processPhoto called again on the path of a file that has a row:
\* photos.filename is UNIQUE, so the INSERT throws and generateVariants is
\* not reached.
ProcessSamePhoto(file) ==
    /\ file \in retryRows
    /\ retryOutcome' = [retryOutcome EXCEPT ![file] = "failed"]
    /\ UNCHANGED <<retryNext, retryRows, retryEntries, retryWritten>>
    /\ UNCHANGED <<mapVars, layoutVars, atlasVars, engineVars, batchVars, analyzeVars, authVars, resetVars>>

RetryNext ==
    \/ \E failAt \in 0..EncodeCount : ProcessNewPhoto(failAt)
    \/ \E file \in RetryFileIds : ReindexSamePhoto(file)
    \/ \E file \in RetryFileIds : ProcessSamePhoto(file)

----------------------------------------------------------------------------
(*        SESSIONS: handleLogin, handleLogout and requireAuth              *)
(*                                                                         *)
(* One client talks to the server.  It keeps the token of the login answer *)
(* in localStorage and sends it in the Authorization header; its cookie    *)
(* jar holds the session cookie when the browser stored it.  A header is   *)
(* the sequence of its parts, <<>> when the request has none.              *)

\* Logins that create a session.
MaxSessions == 3

\* generateToken: the k-th token generated.
TokenNames == <<"t1", "t2", "t3", "t4">>

NoToken == ""

NoHeader == <<>>

BearerHeader(token) == <<"Bearer ", token>>

\* req.headers.authorization?.replace('Bearer ', ''): undefined without the
\* header, else the header with its first 'Bearer ' removed.
ReplaceBearer(header) ==
    LET rest == SelectSeq(header, LAMBDA part : part # "Bearer ")
    IN  IF rest = <<>> THEN NoToken ELSE rest[1]

\* a || b of two strings
OrElse(a, b) == IF a # NoToken THEN a ELSE b

\* validateSession
validateSession(token, sessions) == token \in sessions

\* requireAuth: the status it answers, 200 standing for next().
requireAuth(header, cookie, sessions) ==
    LET token == OrElse(ReplaceBearer(header), cookie)
    IN  IF token = NoToken THEN [status |-> 401, sessionToken |-> NoToken]
        ELSE IF ~validateSession(token, sessions)
        THEN [status |-> 401, sessionToken |-> NoToken]
        ELSE [status |-> 200, sessionToken |-> token]

\* The token handleLogout deletes.  The logout route runs no requireAuth, so
\* req.sessionToken is undefined there.
LogoutToken(sessionToken, cookie) == OrElse(sessionToken, cookie)

AuthInit ==
    /\ authIssued = 0
    /\ authSessions = {}
    /\ authJar = NoToken
    /\ authStored = NoToken
    /\ authLoggedOut = {}
    /\ authStatus = 0

AuthIdle == AuthInit

\* handleLogin and the client's handling of its answer (AdminGate stores the
\* token).  The browser stores the cookie or not (Secure over http, blocked
\* cross-site cookies).
handleLogin(passwordOk, jarAccepts) ==
    /\ authIssued < MaxSessions
    /\ IF ~passwordOk
       THEN /\ authStatus' = 401
            /\ UNCHANGED <<authIssued, authSessions, authJar, authStored>>
       ELSE LET token == TokenNames[authIssued + 1]
            IN  /\ authIssued' = authIssued + 1
                /\ authSessions' = authSessions \cup {token}
                /\ authJar' = IF jarAccepts THEN token ELSE authJar
                /\ authStored' = token
                /\ authStatus' = 200
    /\ UNCHANGED authLoggedOut
    /\ UNCHANGED <<mapVars, layoutVars, atlasVars, engineVars, batchVars, analyzeVars, retryVars, resetVars>>

\* The front end's logout(token) and handleLogout: the request carries the
\* stored token in the Authorization header and the jar's cookie; the client
\* then removes its stored token.
handleLogout ==
    /\ authStored # NoToken
    /\ LET header == BearerHeader(authStored)
           cookie == authJar
           token == LogoutToken(NoToken, cookie)
       IN  /\ authSessions' = IF token # NoToken THEN authSessions \ {token}
                              ELSE authSessions
           /\ authLoggedOut' = authLoggedOut \cup ({ReplaceBearer(header), cookie} \ {NoToken})
    /\ authJar' = NoToken
    /\ authStored' = NoToken
    /\ authStatus' = 200
    /\ UNCHANGED authIssued
    /\ UNCHANGED <<mapVars, layoutVars, atlasVars, engineVars, batchVars, analyzeVars, retryVars, resetVars>>

\* A request to an admin route, with the header, the cookie, or both.
AdminRequest(withHeader, withCookie) ==
    /\ authStatus' = requireAuth(IF withHeader /\ authStored # NoToken
                                 THEN BearerHeader(authStored) ELSE NoHeader,
                                 IF withCookie THEN authJar ELSE NoToken,
                                 authSessions).status
    /\ UNCHANGED <<authIssued, authSessions, authJar, authStored, authLoggedOut>>
    /\ UNCHANGED <<mapVars, layoutVars, atlasVars, engineVars, batchVars, analyzeVars, retryVars, resetVars>>

\* A session passes its expires_at: validateSession no longer selects it and
\* cleanExpiredSessions deletes it.
ExpireSession(token) ==
    /\ token \in authSessions
    /\ authSessions' = authSessions \ {token}
    /\ UNCHANGED <<authIssued, authJar, authStored, authLoggedOut, authStatus>>
    /\ UNCHANGED <<mapVars, layoutVars, atlasVars, engineVars, batchVars, analyzeVars, retryVars, resetVars>>

AuthNext ==
    \/ \E passwordOk, jarAccepts \in BOOLEAN : handleLogin(passwordOk, jarAccepts)
    \/ handleLogout
    \/ \E withHeader, withCookie \in BOOLEAN : AdminRequest(withHeader, withCookie)
    \/ \E k \in 1..MaxSessions : ExpireSession(TokenNames[k])

----------------------------------------------------------------------------
(*        SETTINGS RESET: resetSettings and seedSettings                   *)
(*                                                                         *)
(* A request runs resetSettings up to its return; the callback given to    *)
(* import('./seed.js').then runs later, when the import has settled.  No   *)
(* rejection handler is attached to that promise.                          *)

\* Reset requests.
MaxResets == 3

ResetIds == 1..MaxResets

ResetFaults == {"none", "getDb", "delete"}

NoAnswer == [status |-> 0, settings |-> "none"]

\* seedSettings: every default key is upserted over a connection of its own.
seedSettings(table) == "defaults"

\* getAllSettings(db): db.prepare throws on a connection that was closed.
getAllSettings(dbOpen, table) ==
    [threw |-> ~dbOpen, settings |-> IF dbOpen THEN table ELSE "none"]

ResetInit ==
    /\ settingsTable \in {"defaults", "custom"}
    /\ resetPc = [r \in ResetIds |-> "idle"]
    /\ resetDbOpen = [r \in ResetIds |-> FALSE]
    /\ resetResponse = [r \in ResetIds |-> NoAnswer]
    /\ resetRejected = [r \in ResetIds |-> FALSE]

ResetIdle ==
    /\ settingsTable = "defaults"
    /\ resetPc = [r \in ResetIds |-> "idle"]
    /\ resetDbOpen = [r \in ResetIds |-> FALSE]
    /\ resetResponse = [r \in ResetIds |-> NoAnswer]
    /\ resetRejected = [r \in ResetIds |-> FALSE]

\* resetSettings up to its return: getDb, the DELETE, the import started
\* with its then-callback, and db.close() in the finally block.  An
\* exception of getDb or of the DELETE is answered 500 by the catch.
resetSettings(r, fault) ==
    /\ resetPc[r] = "idle"
    /\ resetDbOpen' = [resetDbOpen EXCEPT ![r] = FALSE]
    /\ IF fault = "none"
       THEN /\ settingsTable' = "empty"
            /\ resetPc' = [resetPc EXCEPT ![r] = "importing"]
            /\ UNCHANGED resetResponse
       ELSE /\ resetPc' = [resetPc EXCEPT ![r] = "returned"]
            /\ resetResponse' = [resetResponse EXCEPT ![r] = [status |-> 500, settings |-> "none"]]
            /\ UNCHANGED settingsTable
    /\ UNCHANGED resetRejected
    /\ UNCHANGED <<mapVars, layoutVars, atlasVars, engineVars, batchVars, analyzeVars, retryVars, authVars>>

\* The import settles.  Rejected: the promise has no handler.  Fulfilled: the
\* callback runs seedSettings, then getAllSettings on the handler's
\* connection, then res.json; an exception in the callback rejects the
\* promise then returned, which has no handler either.
resetSettingsThen(r, imported) ==
    /\ resetPc[r] = "importing"
    /\ resetPc' = [resetPc EXCEPT ![r] = "returned"]
    /\ IF ~imported
       THEN /\ resetRejected' = [resetRejected EXCEPT ![r] = TRUE]
            /\ UNCHANGED <<settingsTable, resetResponse>>
       ELSE LET seeded == seedSettings(settingsTable)
                all == getAllSettings(resetDbOpen[r], seeded)
            IN  /\ settingsTable' = seeded
                /\ resetRejected' = [resetRejected EXCEPT ![r] = all.threw]
                /\ resetResponse' = IF all.threw THEN resetResponse
                                    ELSE [resetResponse EXCEPT
                                            ![r] = [status |-> 200, settings |-> all.settings]]
    /\ UNCHANGED resetDbOpen
    /\ UNCHANGED <<mapVars, layoutVars, atlasVars, engineVars, batchVars, analyzeVars, retryVars, authVars>>

ResetNext ==
    \/ \E r \in ResetIds, fault \in ResetFaults : resetSettings(r, fault)
    \/ \E r \in ResetIds, imported \in BOOLEAN : resetSettingsThen(r, imported)

----------------------------------------------------------------------------
(*             RENDER / ANIMATION ENGINE (PixiTicker)                      *)
(*                                                                         *)
(* Time is performance.now() in milliseconds and passes in steps of 100.   *)
(* A frame runs the Pixi ticker callback (animate) and then the pending    *)
(* requestAnimationFrame callbacks of animateSprite, in the order they     *)
(* were requested.  A timer fires at or after its due time.  Sprites are   *)
(* named by their index in this.sprites.                                   *)
(* Interpolated positions are rounded down to whole pixels; the final      *)
(* frame of an animation (progress 1) lands on the target exactly.         *)

\* Time runs to MaxSteps * 100 ms.
MaxSteps == 5
\* animateSprite closures pending at once.
MaxAnims == 2
\* Resume timers pending at once.
MaxTimers == 1
\* createScene calls per engine.
MaxScenes == 2
\* destroy calls made on one engine.
MaxDestroys == 2

\* duration: 300 of both animateSprite requests
HoverDuration == 300
\* setTimeout(..., 300) of handleHoverEnd
ResumeDelay == 300
\* the gap between the sprites and their duplicates
LoopGap == 100
\* zIndex of the hovered sprite
RaisedZ == 2000

Texts == {"AB", "ABCD"}
TextChars(text) == IF text = "AB" THEN 2 ELSE 4
ScrollSpeeds == {600}
Directions == {"left", "right"}
Screens == {[width |-> 1000, height |-> 600], [width |-> 800, height |-> 600]}
\* glyphScale is held in percent, tileBaseVw in vw.
GlyphScales == {40}
TileBaseVws == {10}
Configs == [text : Texts, scrollSpeed : ScrollSpeeds, scrollDirection : Directions,
            tileBaseVw : TileBaseVws, glyphScale : GlyphScales]
\* The tiles of the atlas the engine loads.
EngineAtlas == AtlasTilesOf(2)

\* generateTextMask: the raster's size from the font size and the padding.
\* The canvas is outside the program: measureText is taken to give 0.6 em per
\* character and fillText to ink the whole text box.
generateTextMask(text, scale) ==
    LET fontSize == (100 * scale) \div 100
        padding == (20 * scale) \div 100
        metricsWidth == TextChars(text) * ((fontSize * 6) \div 10)
        width == metricsWidth + padding * 2
        height == CeilDiv(fontSize * 3, 2) + padding * 2
    IN  [width |-> width, height |-> height,
         pixels |-> [p \in 1..(width * height) |->
                       LET px == (p - 1) % width
                           py == (p - 1) \div width
                       IN  IF /\ px >= padding /\ px < width - padding
                              /\ py >= padding /\ py < padding + fontSize
                           THEN 1 ELSE 0]]

calculateTileSize(viewportWidth, baseVw) == (viewportWidth * baseVw) \div 100

calculateContainerSize(m, tileSize) ==
    [width |-> CeilDiv(m.width, tileSize) * tileSize,
     height |-> CeilDiv(m.height, tileSize) * tileSize]

\* The mask of every text and glyph scale, rasterized once.
MaskTable == [text \in Texts, scale \in GlyphScales |-> generateTextMask(text, scale)]

\* createScene and duplicateContainerForLoop: the sprites of a scene, the
\* originals followed by their duplicates.  The index mapTilesToGlyph returns
\* depends on the tile count only, not on the draws of its shuffles.
SceneSprites(cfg, scr, tiles) ==
    LET m == MaskTable[cfg.text, cfg.glyphScale]
        tileSize == calculateTileSize(scr.width, cfg.tileBaseVw)
        maps == mapTilesToGlyph(m, tileSize, tiles, tiles)
        containerSize == calculateContainerSize(m, tileSize)
        offsetY == (scr.height - containerSize.height) \div 2
        n == Len(maps)
        original(k) == [x |-> maps[k].x, y |-> maps[k].y + offsetY, scale |-> tileSize,
                        zIndex |-> 0, texture |-> TextureFor(tiles, maps[k]).id,
                        filtered |-> ~maps[k].isForeground]
    IN  [k \in 1..(2 * n) |->
           IF k <= n THEN original(k)
           ELSE [original(k - n) EXCEPT !.x = @ + containerSize.width + LoopGap]]

\* The scene of every configuration and screen with the engine's atlas.
SceneTable == [cfg \in Configs, scr \in Screens |-> SceneSprites(cfg, scr, EngineAtlas)]

\* The rest-state table filled while the sprites are created.
RestStateOf(sp) ==
    [k \in 1..Len(sp) |-> [x |-> sp[k].x, y |-> sp[k].y, scale |-> sp[k].scale, zIndex |-> 0]]

\* getLoopWidth
getLoopWidth(sp) ==
    IF Len(sp) = 0 THEN 0
    ELSE Abs(sp[(Len(sp) \div 2) + 1].x - sp[1].x)

\* The cubic ease in-out of animateSprite at elapsed/duration, as a fraction
\* num/den; both times are taken in steps of 100 ms.
EaseDen(duration) == (duration \div 100) * (duration \div 100) * (duration \div 100)
EaseNum(elapsed, duration) ==
    LET d == duration \div 100
        e == Min(elapsed \div 100, d)
    IN  IF 2 * e < d THEN 4 * e * e * e
        ELSE d * d * d - 4 * (d - e) * (d - e) * (d - e)

Lerp(from, to, elapsed, duration) ==
    from + (((to - from) * EaseNum(elapsed, duration)) \div EaseDen(duration))

\* One run of the animate closure of animateSprite at frame time t.
AnimFrame(sp, a, t) ==
    LET e == t - a.start
    IN  [sp EXCEPT ![a.sprite] =
           [@ EXCEPT !.scale = Lerp(a.startScale, a.scale, e, a.duration),
                     !.x = Lerp(a.startX, a.x, e, a.duration),
                     !.y = Lerp(a.startY, a.y, e, a.duration)]]

\* progress < 1: the closure requests another frame.
AnimContinues(a, t) == t - a.start < a.duration

\* The pending closures run in the reverse of the order they were requested.
RECURSIVE RunAnimsReversed(_, _, _)
RunAnimsReversed(sp, pending, t) ==
    IF pending = <<>> THEN sp
    ELSE AnimFrame(RunAnimsReversed(sp, Tail(pending), t), Head(pending), t)

\* The requestAnimationFrame callbacks of one frame, in request order.
RECURSIVE RunAnims(_, _, _)
RunAnims(sp, pending, t) ==
    IF pending = <<>> THEN sp
    ELSE RunAnims(AnimFrame(sp, Head(pending), t), Tail(pending), t)

\* animateSprite: the closure captures the sprite's transform at the call.
NewAnim(sp, s, props, t) ==
    [sprite |-> s, start |-> t, startScale |-> sp[s].scale, startX |-> sp[s].x,
     startY |-> sp[s].y, scale |-> props.scale, x |-> props.x, y |-> props.y,
     duration |-> props.duration]

\* The zoom target of handleHoverStart (texture width and height are 128).
HoverTarget(scr) ==
    LET targetWidth == (scr.width * 6) \div 10
    IN  [scale |-> targetWidth,
         x |-> (scr.width - targetWidth) \div 2,
         y |-> (scr.height - targetWidth) \div 2,
         duration |-> HoverDuration]

\* The restore target of handleHoverEnd.
RestoreTarget(original, offset) ==
    [scale |-> original.scale, x |-> original.x - offset, y |-> original.y,
     duration |-> HoverDuration]

\* The scroll part of animate: the new offset, the position applied to the
\* container, and the offset kept after the reset check.
ScrollTick(offset, cfg, delta, loopWidth) ==
    LET scrollDelta == (cfg.scrollSpeed * delta) \div 1000
        direction == IF cfg.scrollDirection = "right" THEN 1 ELSE -1
        advanced == offset + scrollDelta * direction
    IN  [containerX |-> -advanced,
         scrollOffset |-> IF Abs(advanced) > loopWidth THEN 0 ELSE advanced]

\* The field initializers of the class and the state of the host around it.
Constructed ==
    /\ phase = "constructed"
    /\ app = FALSE
    /\ atlas = FALSE
    /\ container = FALSE
    /\ containerX = 0
    /\ stage = [containers |-> 0, overlays |-> <<>>, pointerdownListeners |-> 0]
    /\ sprites = <<>>
    /\ originalSpriteData = <<>>
    /\ isScrolling = TRUE
    /\ scrollOffset = 0
    /\ hoveredSprite = 0
    /\ now = 0
    /\ lastTime = 0
    /\ frameCount = 0
    /\ fpsTimer = 0
    /\ currentFps = [frames |-> 60, ms |-> 1000]
    /\ fpsUpdates = 0
    /\ fpsReported = 0
    /\ frameDue = FALSE
    /\ anims = <<>>
    /\ timers = <<>>
    /\ tickerOn = FALSE
    /\ resizeListener = FALSE
    /\ readyCalls = 0
    /\ fontLoaded = FALSE
    /\ destroyed = FALSE
    /\ settled = <<>>
    /\ initError = "none"
    /\ destroyCalls = 0

\* The host constructs the engine with one configuration; updateConfig and
\* resizes bring the others.
EngineInit ==
    /\ config = [text |-> "AB", scrollSpeed |-> 600, scrollDirection |-> "left",
                 tileBaseVw |-> 10, glyphScale |-> 40]
    /\ screen = [width |-> 1000, height |-> 600]
    /\ Constructed

EngineIdle == EngineInit

\* cleanup and createScene (with duplicateContainerForLoop) and the stage
\* listener of setupInteraction, as run by a rebuild: the values of the state
\* the rebuild leaves.  createScene returns at once without app or atlas.
\* The closures of animateSprite still pending hold sprites that cleanup
\* removed from the container; they are dropped with them.
Rebuilt(cfg, scr, hasApp, hasAtlas, st, cont, contX) ==
    IF hasApp /\ hasAtlas
    THEN LET sp == SceneTable[cfg, scr]
         IN  [sprites |-> sp,
              originalSpriteData |-> RestStateOf(sp),
              container |-> TRUE,
              containerX |-> 0,
              stage |-> [containers |-> st.containers + 1,
                         overlays |-> Append(st.overlays, FALSE),
                         pointerdownListeners |-> st.pointerdownListeners + 1]]
    ELSE [sprites |-> <<>>,
          originalSpriteData |-> <<>>,
          container |-> cont,
          containerX |-> contX,
          stage |-> [st EXCEPT !.pointerdownListeners =
                                   IF hasApp THEN @ + 1 ELSE @]]

\* this.overlay is the overlay created last.
SetOverlay(st, visible) ==
    IF st.overlays = <<>> THEN st
    ELSE [st EXCEPT !.overlays[Len(st.overlays)] = visible]

\* ---- init ---------------------------------------------------------------

\* init up to its first await (waitForFont).
InitCall ==
    /\ phase = "constructed"
    /\ phase' = "font"
    /\ UNCHANGED <<app, atlas, container, containerX, stage, sprites,
                   originalSpriteData, config, screen, isScrolling, scrollOffset,
                   hoveredSprite, now, lastTime, frameCount, fpsTimer, currentFps,
                   fpsUpdates, fpsReported, frameDue, anims, timers, tickerOn, resizeListener,
                   readyCalls, fontLoaded, destroyed,
                   settled, initError, destroyCalls>>
    /\ UNCHANGED <<mapVars, layoutVars, atlasVars, batchVars, analyzeVars, retryVars, authVars, resetVars>>

\* waitForFont settles: a failed font load is caught and only logged.  Then
\* this.app = new PIXI.Application(), up to the await of app.init.
InitFontSettled ==
    /\ phase = "font"
    /\ \E ok \in BOOLEAN : fontLoaded' = ok
    /\ settled' = Append(settled, "font")
    /\ app' = TRUE
    /\ phase' = "surface"
    /\ UNCHANGED <<atlas, container, containerX, stage, sprites,
                   originalSpriteData, config, screen, isScrolling, scrollOffset,
                   hoveredSprite, now, lastTime, frameCount, fpsTimer, currentFps,
                   fpsUpdates, fpsReported, frameDue, anims, timers, tickerOn, resizeListener,
                   readyCalls, destroyed, initError, destroyCalls>>
    /\ UNCHANGED <<mapVars, layoutVars, atlasVars, batchVars, analyzeVars, retryVars, authVars, resetVars>>

\* The try/catch of init around an await: where init stands once the awaited
\* promise settles.  A rejection leaves the try block and is rethrown.
AwaitOutcomeSwallowed(ok, next) == next

AwaitOutcome(ok, next) == IF ok THEN next ELSE "failed"

\* app.init settles: a rejection is rethrown by init; else loadAtlas is awaited.
InitSurfaceSettled ==
    /\ phase = "surface"
    /\ \E ok \in BOOLEAN :
          /\ phase' = AwaitOutcome(ok, "atlas")
          /\ settled' = IF ok THEN Append(settled, "surface") ELSE settled
          /\ initError' = IF ok THEN initError ELSE "surface"
    /\ UNCHANGED <<app, atlas, container, containerX, stage, sprites,
                   originalSpriteData, config, screen, isScrolling, scrollOffset,
                   hoveredSprite, now, lastTime, frameCount, fpsTimer, currentFps,
                   fpsUpdates, fpsReported, frameDue, anims, timers, tickerOn, resizeListener,
                   readyCalls, fontLoaded, destroyed, destroyCalls>>
    /\ UNCHANGED <<mapVars, layoutVars, atlasVars, batchVars, analyzeVars, retryVars, authVars, resetVars>>

\* loadAtlas rejects: init rethrows.
InitAtlasFailed ==
    /\ phase = "atlas"
    /\ phase' = AwaitOutcome(FALSE, "ready")
    /\ initError' = "atlas"
    /\ UNCHANGED <<app, atlas, container, containerX, stage, sprites,
                   originalSpriteData, config, screen, isScrolling, scrollOffset,
                   hoveredSprite, now, lastTime, frameCount, fpsTimer, currentFps,
                   fpsUpdates, fpsReported, frameDue, anims, timers, tickerOn, resizeListener,
                   readyCalls, fontLoaded, destroyed, settled, destroyCalls>>
    /\ UNCHANGED <<mapVars, layoutVars, atlasVars, batchVars, analyzeVars, retryVars, authVars, resetVars>>

\* loadAtlas resolves: createScene, setupInteraction, ticker.add, the resize
\* listener, onReady.  With this.app null, this.app.ticker throws and init
\* rethrows.
InitAtlasLoaded ==
    /\ phase = "atlas"
    /\ settled' = Append(settled, "atlas")
    /\ atlas' = TRUE
    /\ LET r == Rebuilt(config, screen, app, TRUE, stage, container, containerX)
       IN  /\ sprites' = r.sprites
           /\ originalSpriteData' = r.originalSpriteData
           /\ container' = r.container
           /\ containerX' = r.containerX
           /\ stage' = r.stage
    /\ IF app
       THEN /\ tickerOn' = TRUE
            /\ resizeListener' = TRUE
            /\ readyCalls' = readyCalls + 1
            /\ phase' = "ready"
       ELSE /\ phase' = "failed"
            /\ UNCHANGED <<tickerOn, resizeListener, readyCalls>>
    /\ initError' = IF app THEN initError ELSE "ticker"
    /\ UNCHANGED <<app, config, screen, isScrolling, scrollOffset,
                   hoveredSprite, now, lastTime, frameCount, fpsTimer, currentFps,
                   fpsUpdates, fpsReported, frameDue, anims, timers, fontLoaded, destroyed,
                   destroyCalls>>
    /\ UNCHANGED <<mapVars, layoutVars, atlasVars, batchVars, analyzeVars, retryVars, authVars, resetVars>>

\* ---- time, frames, timers -------------------------------------------------

\* One frame period passes; the frame of a period runs before the next.
Advance ==
    /\ now < MaxSteps * 100
    /\ ~frameDue
    /\ now' = now + 100
    /\ frameDue' = TRUE
    /\ UNCHANGED <<phase, app, atlas, container, containerX, stage, sprites,
                   originalSpriteData, config, screen, isScrolling, scrollOffset,
                   hoveredSprite, lastTime, frameCount, fpsTimer, currentFps,
                   fpsUpdates, fpsReported, anims, timers, tickerOn, resizeListener,
                   readyCalls, fontLoaded, destroyed,
                   settled, initError, destroyCalls>>
    /\ UNCHANGED <<mapVars, layoutVars, atlasVars, batchVars, analyzeVars, retryVars, authVars, resetVars>>

\* Does the ticker call animate, and does animate pass its first check?
TickRuns == tickerOn /\ app /\ container

\* The quotient handed over as it is, without Math.round.
RoundDivTruncating(num, den) == num \div den

\* Math.round(num / den) for num >= 0 and den > 0.
RoundDiv(num, den) == (2 * num + den) \div (2 * den)

\* The frame-rate window of animate; times in ms, currentFps as frames and ms.
FpsTick(delta) ==
    LET count == frameCount + 1
        timer == fpsTimer + delta
    IN  IF timer >= 1000
        THEN [frameCount |-> 0, fpsTimer |-> 0,
              currentFps |-> [frames |-> count, ms |-> timer],
              fpsUpdates |-> fpsUpdates + 1,
              fpsReported |-> RoundDiv(count * 1000, timer)]
        ELSE [frameCount |-> count, fpsTimer |-> timer,
              currentFps |-> currentFps, fpsUpdates |-> fpsUpdates,
              fpsReported |-> fpsReported]

\* One animation frame: the ticker's animate, then the pending animateSprite
\* closures in the order they were requested.
Frame ==
    /\ frameDue
    /\ frameDue' = FALSE
    /\ IF TickRuns
       THEN LET f == FpsTick(now - lastTime)
                s == ScrollTick(scrollOffset, config, now - lastTime,
                                getLoopWidth(sprites))
            IN  /\ lastTime' = now
                /\ frameCount' = f.frameCount
                /\ fpsTimer' = f.fpsTimer
                /\ currentFps' = f.currentFps
                /\ fpsUpdates' = f.fpsUpdates
                /\ fpsReported' = f.fpsReported
                /\ IF isScrolling
                   THEN /\ scrollOffset' = s.scrollOffset
                        /\ containerX' = s.containerX
                   ELSE UNCHANGED <<scrollOffset, containerX>>
       ELSE UNCHANGED <<lastTime, frameCount, fpsTimer, currentFps, fpsUpdates,
                        fpsReported, scrollOffset, containerX>>
    /\ sprites' = RunAnims(sprites, anims, now)
    /\ anims' = SelectSeq(anims, LAMBDA a : AnimContinues(a, now))
    /\ UNCHANGED <<phase, app, atlas, container, stage,
                   originalSpriteData, config, screen, isScrolling,
                   hoveredSprite, now, timers, tickerOn, resizeListener,
                   readyCalls, fontLoaded, destroyed, settled, initError,
                   destroyCalls>>
    /\ UNCHANGED <<mapVars, layoutVars, atlasVars, batchVars, analyzeVars, retryVars, authVars, resetVars>>

\* The callback of a resume timer whose delay has passed.
TimerFire ==
    /\ timers # <<>>
    /\ Head(timers) <= now
    /\ timers' = Tail(timers)
    /\ isScrolling' = TRUE
    /\ UNCHANGED <<phase, app, atlas, container, containerX, stage, sprites,
                   originalSpriteData, config, screen, scrollOffset,
                   hoveredSprite, now, lastTime, frameCount, fpsTimer, currentFps,
                   fpsUpdates, fpsReported, frameDue, anims, tickerOn, resizeListener,
                   readyCalls, fontLoaded, destroyed,
                   settled, initError, destroyCalls>>
    /\ UNCHANGED <<mapVars, layoutVars, atlasVars, batchVars, analyzeVars, retryVars, authVars, resetVars>>

\* ---- pointer events -------------------------------------------------------

handleHoverStart(s) ==
    /\ hoveredSprite # s
    /\ Len(anims) < MaxAnims
    /\ isScrolling' = FALSE
    /\ stage' = SetOverlay(stage, TRUE)
    /\ sprites' = [sprites EXCEPT ![s].zIndex = RaisedZ]
    /\ hoveredSprite' = s
    /\ anims' = Append(anims, NewAnim(sprites, s, HoverTarget(screen), now))
    /\ UNCHANGED <<phase, app, atlas, container, containerX,
                   originalSpriteData, config, screen, scrollOffset,
                   now, lastTime, frameCount, fpsTimer, currentFps,
                   fpsUpdates, fpsReported, frameDue, timers, tickerOn, resizeListener,
                   readyCalls, fontLoaded, destroyed,
                   settled, initError, destroyCalls>>
    /\ UNCHANGED <<mapVars, layoutVars, atlasVars, batchVars, analyzeVars, retryVars, authVars, resetVars>>

handleHoverEnd ==
    /\ hoveredSprite # 0
    /\ Len(anims) < MaxAnims
    /\ Len(timers) < MaxTimers
    /\ anims' = Append(anims, NewAnim(sprites, hoveredSprite,
                         RestoreTarget(originalSpriteData[hoveredSprite], scrollOffset),
                         now))
    /\ sprites' = [sprites EXCEPT ![hoveredSprite].zIndex = 0]
    /\ hoveredSprite' = 0
    /\ stage' = SetOverlay(stage, FALSE)
    /\ timers' = Append(timers, now + ResumeDelay)
    /\ UNCHANGED <<phase, app, atlas, container, containerX,
                   originalSpriteData, config, screen, isScrolling, scrollOffset,
                   now, lastTime, frameCount, fpsTimer, currentFps,
                   fpsUpdates, fpsReported, frameDue, tickerOn, resizeListener,
                   readyCalls, fontLoaded, destroyed,
                   settled, initError, destroyCalls>>
    /\ UNCHANGED <<mapVars, layoutVars, atlasVars, batchVars, analyzeVars, retryVars, authVars, resetVars>>

\* Sprites receive events while they are on the stage of a live application.
SpritesLive == app /\ sprites # <<>>

PointerOver(s) == SpritesLive /\ handleHoverStart(s)

\* The sprite's own listener; the stage listener that runs next finds the
\* pointer inside the hovered sprite's bounds.
PointerDown(s) == SpritesLive /\ handleHoverStart(s)

PointerOut == SpritesLive /\ handleHoverEnd

\* A pointerdown on the stage outside the hovered sprite's bounds.
StagePointerDownOutside == SpritesLive /\ handleHoverEnd

\* ---- rebuilds and destroy ------------------------------------------------

\* handleResize, run by the window's resize listener.
handleResize(scr) ==
    /\ resizeListener
    /\ app
    /\ stage.containers < MaxScenes
    /\ screen' = scr
    /\ LET r == Rebuilt(config, scr, app, atlas, stage, container, containerX)
       IN  /\ sprites' = r.sprites
           /\ originalSpriteData' = r.originalSpriteData
           /\ container' = r.container
           /\ containerX' = r.containerX
           /\ stage' = r.stage
    /\ hoveredSprite' = 0
    /\ anims' = <<>>
    /\ UNCHANGED <<phase, app, atlas, config, isScrolling, scrollOffset,
                   now, lastTime, frameCount, fpsTimer, currentFps,
                   fpsUpdates, fpsReported, frameDue, timers, tickerOn, resizeListener,
                   readyCalls, fontLoaded, destroyed,
                   settled, initError, destroyCalls>>
    /\ UNCHANGED <<mapVars, layoutVars, atlasVars, batchVars, analyzeVars, retryVars, authVars, resetVars>>

\* updateConfig, called by the host component once the engine is ready and
\* until the component unmounts.
updateConfig(cfg) ==
    /\ phase = "ready"
    /\ ~destroyed
    /\ stage.containers < MaxScenes
    /\ config' = cfg
    /\ LET r == Rebuilt(cfg, screen, app, atlas, stage, container, containerX)
       IN  /\ sprites' = r.sprites
           /\ originalSpriteData' = r.originalSpriteData
           /\ container' = r.container
           /\ containerX' = r.containerX
           /\ stage' = r.stage
    /\ hoveredSprite' = 0
    /\ anims' = <<>>
    /\ UNCHANGED <<phase, app, atlas, screen, isScrolling, scrollOffset,
                   now, lastTime, frameCount, fpsTimer, currentFps,
                   fpsUpdates, fpsReported, frameDue, timers, tickerOn, resizeListener,
                   readyCalls, fontLoaded, destroyed,
                   settled, initError, destroyCalls>>
    /\ UNCHANGED <<mapVars, layoutVars, atlasVars, batchVars, analyzeVars, retryVars, authVars, resetVars>>

\* The fields of the engine that destroy reads or that hold what it is to
\* release.
EngineFields ==
    [app |-> app, atlas |-> atlas, tickerOn |-> tickerOn, stage |-> stage,
     sprites |-> sprites, originalSpriteData |-> originalSpriteData,
     anims |-> anims, resizeListener |-> resizeListener,
     hoveredSprite |-> hoveredSprite, isScrolling |-> isScrolling,
     timers |-> timers, container |-> container]

\* A destroy that builds a fresh application and leaves it behind.
DestroyOfRecreating(e) ==
    [e EXCEPT !.app = ~e.app, !.atlas = FALSE, !.sprites = <<>>,
              !.originalSpriteData = <<>>, !.anims = <<>>]

\* The body of destroy on those fields.  The listener handed to
\* removeEventListener is a new bound function, not the one init registered,
\* so the registered one stays.  app.destroy stops the ticker and destroys
\* the stage with its children; the pending animateSprite closures hold
\* destroyed sprites and are dropped with them.  The resume timers, the
\* hovered sprite, the scrolling flag and this.container are not touched.
DestroyOf(e) ==
    [e EXCEPT !.app = FALSE,
              !.atlas = FALSE,
              !.tickerOn = IF e.app THEN FALSE ELSE e.tickerOn,
              !.stage = IF e.app THEN [containers |-> 0, overlays |-> <<>>,
                                       pointerdownListeners |-> 0]
                        ELSE e.stage,
              !.sprites = <<>>,
              !.originalSpriteData = <<>>,
              !.anims = <<>>]

\* destroy, called by the host component when it unmounts.  The listener
\* handed to removeEventListener is a new bound function, not the one init
\* registered.  app.destroy stops the ticker and destroys the stage with its
\* children.
destroy ==
    /\ destroyCalls < MaxDestroys
    /\ destroyCalls' = destroyCalls + 1
    /\ destroyed' = TRUE
    /\ LET d == DestroyOf(EngineFields)
       IN  /\ app' = d.app
           /\ atlas' = d.atlas
           /\ tickerOn' = d.tickerOn
           /\ stage' = d.stage
           /\ sprites' = d.sprites
           /\ originalSpriteData' = d.originalSpriteData
           /\ anims' = d.anims
           /\ resizeListener' = d.resizeListener
           /\ hoveredSprite' = d.hoveredSprite
           /\ isScrolling' = d.isScrolling
           /\ timers' = d.timers
           /\ container' = d.container
    /\ UNCHANGED <<phase, containerX, config, screen,
                   scrollOffset, now, lastTime, frameCount,
                   fpsTimer, currentFps, fpsUpdates, fpsReported, frameDue,
                   readyCalls, fontLoaded,
                   settled, initError>>
    /\ UNCHANGED <<mapVars, layoutVars, atlasVars, batchVars, analyzeVars, retryVars, authVars, resetVars>>

\* ---- a running engine over seconds ---------------------------------------

\* Frames of the long run: frame periods up to MaxFpsSteps * 100 ms.
MaxFpsSteps == 12

\* Periods between two frames, in ms: a regular frame and a late one.
FrameGaps == {100, 300}

\* The engine as init leaves it when its three awaits resolve at once.
EngineReady ==
    LET cfg == [text |-> "AB", scrollSpeed |-> 600, scrollDirection |-> "left",
                tileBaseVw |-> 10, glyphScale |-> 40]
        scr == [width |-> 1000, height |-> 600]
        r == Rebuilt(cfg, scr, TRUE, TRUE,
                     [containers |-> 0, overlays |-> <<>>, pointerdownListeners |-> 0],
                     FALSE, 0)
    IN  /\ config = cfg
        /\ screen = scr
        /\ phase = "ready"
        /\ app = TRUE
        /\ atlas = TRUE
        /\ container = r.container
        /\ containerX = r.containerX
        /\ stage = r.stage
        /\ sprites = r.sprites
        /\ originalSpriteData = r.originalSpriteData
        /\ isScrolling = TRUE
        /\ scrollOffset = 0
        /\ hoveredSprite = 0
        /\ now = 0
        /\ lastTime = 0
        /\ frameCount = 0
        /\ fpsTimer = 0
        /\ currentFps = [frames |-> 60, ms |-> 1000]
        /\ fpsUpdates = 0
        /\ fpsReported = 0
        /\ frameDue = FALSE
        /\ anims = <<>>
        /\ timers = <<>>
        /\ tickerOn = TRUE
        /\ resizeListener = TRUE
        /\ readyCalls = 1
        /\ fontLoaded = TRUE
        /\ destroyed = FALSE
        /\ settled = <<"font", "surface", "atlas">>
        /\ initError = "none"
        /\ destroyCalls = 0

\* The time to the next frame passes.
AdvanceBy(gap) ==
    /\ now + gap <= MaxFpsSteps * 100
    /\ ~frameDue
    /\ now' = now + gap
    /\ frameDue' = TRUE
    /\ UNCHANGED <<phase, app, atlas, container, containerX, stage, sprites,
                   originalSpriteData, config, screen, isScrolling, scrollOffset,
                   hoveredSprite, lastTime, frameCount, fpsTimer, currentFps,
                   fpsUpdates, fpsReported, anims, timers, tickerOn, resizeListener,
                   readyCalls, fontLoaded, destroyed, settled, initError,
                   destroyCalls>>
    /\ UNCHANGED <<mapVars, layoutVars, atlasVars, batchVars, analyzeVars, retryVars, authVars, resetVars>>

\* Frames, and hovers on the first sprite, over the long run.
FpsNext ==
    \/ \E gap \in FrameGaps : AdvanceBy(gap)
    \/ Frame
    \/ TimerFire
    \/ PointerOver(1)
    \/ PointerOut

Next ==
    \/ InitCall
    \/ InitFontSettled
    \/ InitSurfaceSettled
    \/ InitAtlasFailed
    \/ InitAtlasLoaded
    \/ Advance
    \/ Frame
    \/ TimerFire
    \/ \E s \in 1..Len(sprites) : PointerOver(s)
    \/ \E s \in 1..Len(sprites) : PointerDown(s)
    \/ PointerOut
    \/ StagePointerDownOutside
    \/ \E scr \in Screens : handleResize(scr)
    \/ \E cfg \in Configs : updateConfig(cfg)
    \/ destroy

----------------------------------------------------------------------------
(*                    PROPERTIES OF THE MAPPER                             *)

TilesX == CeilDiv(mask.width, mapTileSize)
TilesY == CeilDiv(mask.height, mapTileSize)
Cells == 1..Len(mappings)
\* The ordering a cell's flag selects.
OrderingOf(c) == IF mappings[c].isForeground THEN shuffledForeground
                 ELSE shuffledBackground
\* How many cells of the same kind as c precede c in row-major order.
KindRank(c) ==
    Cardinality({d \in Cells : d < c /\ mappings[d].isForeground = mappings[c].isForeground})

\* C5: for every mask, tile size >= 1 and atlas with tileCount >= 1, the
\* mapping returned by mapTilesToGlyph holds exactly one entry per mask cell
\* (one per grid position (tx, ty)), and every entry's tileIndex lies in
\* [0, tileCount).
C5_EveryCellOneTileInRange ==
    mapPc # "input" =>
      /\ Len(mappings) = TilesX * TilesY
      /\ \A tx \in 0..(TilesX - 1), ty \in 0..(TilesY - 1) :
            Cardinality({c \in Cells : /\ mappings[c].x = tx * mapTileSize
                                       /\ mappings[c].y = ty * mapTileSize}) = 1
      /\ \A c \in Cells : mappings[c].tileIndex \in 0..(Len(atlasData) - 1)

\* C5 witness: a mapping with more cells of one kind than the atlas has tiles
\* (so the counter has wrapped), holding both foreground and background cells.
C5_Witness ==
    /\ mapPc = "mapped"
    /\ Len(atlasData) >= 2
    /\ \E c \in Cells : KindRank(c) >= Len(atlasData)
    /\ \E c, d \in Cells : mappings[c].isForeground /\ ~mappings[d].isForeground

\* C6: the atlas tile realized as the sprite of a cell is the element standing
\* at that cell's round-robin position in the ordering matching the cell's
\* flag (foreground cells draw from the foreground-shuffled ordering,
\* background cells from the background-shuffled ordering).
C6_RealizedFromMatchingOrdering ==
    mapPc = "realized" =>
      \A c \in Cells :
        realized[c] = OrderingOf(c)[(KindRank(c) % Len(atlasData)) + 1]

SampledValue(c) ==
    LET tx == (c - 1) % TilesX
        ty == (c - 1) \div TilesX
        sampleX == Min(tx * mapTileSize + (mapTileSize \div 2), mask.width - 1)
        sampleY == Min(ty * mapTileSize + (mapTileSize \div 2), mask.height - 1)
    IN  mask.pixels[sampleY * mask.width + sampleX + 1]

\* C21: the cells are assigned in row-major mask order, and the k-th cell of
\* a kind (k from 0, counting cells of that kind only) receives position
\* k mod tileCount: each kind has a counter of its own, which cells of the
\* other kind do not advance.
C21_TwoIndependentRoundRobins ==
    mapPc # "input" =>
      \A c \in Cells :
        /\ mappings[c].x = ((c - 1) % TilesX) * mapTileSize
        /\ mappings[c].y = ((c - 1) \div TilesX) * mapTileSize
        /\ mappings[c].isForeground = (SampledValue(c) = 1)
        /\ mappings[c].tileIndex = KindRank(c) % Len(atlasData)

\* A mapping over two rows in which a background cell stands between two
\* foreground cells, and a foreground cell between two background cells.
C21_Witness ==
    /\ mapPc = "mapped"
    /\ TilesY = 2
    /\ Len(atlasData) >= 3
    /\ \E c, d, e \in Cells :
          /\ c < d /\ d < e
          /\ mappings[c].isForeground /\ ~mappings[d].isForeground
          /\ mappings[e].isForeground /\ mappings[e].tileIndex = 1
    /\ \E c, d, e \in Cells :
          /\ c < d /\ d < e
          /\ ~mappings[c].isForeground /\ mappings[d].isForeground
          /\ ~mappings[e].isForeground /\ mappings[e].tileIndex = 1

----------------------------------------------------------------------------
(*                    PROPERTIES OF THE ATLAS LAYOUT                       *)

\* C8: for every number of photos n >= 1, every placed tile's rectangle lies
\* entirely inside the atlas width and height recorded in the metadata (the
\* row width times the cell size never exceeds the maximum atlas width).
C8_TilesInsideAtlas ==
    layoutPc = "built" =>
      /\ TilesPerRow(layoutN) * ATLAS_TILE_SIZE <= ATLAS_MAX_SIZE
      /\ \A j \in 1..Len(layoutDoc.tiles) :
            LET t == layoutDoc.tiles[j]
            IN  /\ t.x >= 0 /\ t.x + t.width <= layoutDoc.width
                /\ t.y >= 0 /\ t.y + t.height <= layoutDoc.height

------------------------------------------------------------------------

------------------------------------------------------------------------

\* Do the rectangles of two tile entries share a pixel?
Overlap(a, b) ==
    /\ a.x < b.x + b.width /\ b.x < a.x + a.width
    /\ a.y < b.y + b.height /\ b.y < a.y + a.height

\* C26: the tile of the photo at position i of the query (0-based) lies at
\* grid cell (i mod tilesPerRow, i div tilesPerRow), and no two tile entries
\* of a document have the same rectangle or overlapping rectangles.
C26_TilesOnDistinctCells ==
    layoutPc = "built" =>
      /\ \A j \in 1..Len(layoutDoc.tiles) :
            LET t == layoutDoc.tiles[j]
                i == t.id - 1
            IN  /\ t.x = (i % TilesPerRow(layoutN)) * layoutDoc.tileSize
                /\ t.y = (i \div TilesPerRow(layoutN)) * layoutDoc.tileSize
                /\ t.width = layoutDoc.tileSize /\ t.height = layoutDoc.tileSize
      /\ \A j, k \in 1..Len(layoutDoc.tiles) :
            j # k => ~Overlap(layoutDoc.tiles[j], layoutDoc.tiles[k])

\* C26 witness: a built document with tiles side by side in one row and
\* tiles one above the other in one column, next to a skipped photo.
C26_Witness ==
    /\ layoutPc = "built"
    /\ layoutMissing # {}
    /\ \E j, k \in 1..Len(layoutDoc.tiles) :
          /\ layoutDoc.tiles[j].y = layoutDoc.tiles[k].y
          /\ layoutDoc.tiles[j].x + layoutDoc.tiles[j].width = layoutDoc.tiles[k].x
    /\ \E j, k \in 1..Len(layoutDoc.tiles) :
          /\ layoutDoc.tiles[j].x = layoutDoc.tiles[k].x
          /\ layoutDoc.tiles[j].y + layoutDoc.tiles[j].height = layoutDoc.tiles[k].y

----------------------------------------------------------------------------
(*                    PROPERTIES OF THE ATLAS STORE                        *)

\* Do the metadata and the image describe the same packing: same size, and
\* every tile entry's rectangle holds that tile's photo in the image?
SamePacking(data, image) ==
    /\ data.width = image.width
    /\ data.height = image.height
    /\ Len(data.tiles) = Len(image.composite)
    /\ \A j \in 1..Len(data.tiles) :
          image.composite[j] = [input |-> data.tiles[j].id,
                                top |-> data.tiles[j].y,
                                left |-> data.tiles[j].x]

\* C4: a reader that has loaded the atlas (metadata, then image) holds
\* metadata and an image of one build, so that the metadata describes the
\* packing of the image it is used with, whatever builds ran meanwhile.
C4_ReaderSeesOneBuild ==
    reader.pc = "done" => SamePacking(reader.data, reader.baseTexture)

\* C22: when all rebuild requests have finished, however their steps were
\* interleaved, the packed image and the metadata document left in storage
\* describe the same packing: both come from one build.
C22_FinishedBuildsLeaveOneBuild ==
    (\A b \in BuildIds : builds[b].pc = "done") => SamePacking(atlasJson, atlasImage)

\* C23: every metadata document buildAtlas writes holds at least one tile.
C23_WrittenAtlasNonEmpty ==
    atlasJson # NoFile => Len(atlasJson.tiles) >= 1

\* A request of buildAtlas made while table photos is empty.
StartsWithNoPhotos(b) ==
    /\ builds[b].pc = "idle"
    /\ builds'[b].pc # "idle"
    /\ dbPhotos = {}

\* C10: a buildAtlas request made when there are no photos fails, the failure
\* reaches the caller (the handler answers 500), and the atlas image, the
\* metadata document and the atlas row are what they were before; a failed
\* build never writes any of them.
C10_EmptyBuildFailsAndKeepsAtlas ==
    /\ [][\A b \in BuildIds :
            StartsWithNoPhotos(b) =>
              /\ builds'[b].pc = "failed"
              /\ builds'[b].response = 500
              /\ UNCHANGED <<atlasImage, atlasJson, atlasRow>>]_vars
    /\ [](\A b \in BuildIds :
            builds[b].pc = "failed" =>
              /\ builds[b].response = 500
              /\ atlasImage.build # b /\ atlasJson.build # b /\ atlasRow.build # b)

\* C10 witness: a request has failed for want of photos and was answered 500.
C10_Witness ==
    \E b \in BuildIds :
      /\ builds[b].pc = "failed"
      /\ builds[b].response = 500
      /\ atlasImage = NoFile /\ atlasJson = NoFile /\ atlasRow = NoRow

----------------------------------------------------------------------------
(*                    PROPERTIES OF THE BATCH OPERATIONS                   *)

\* The files of the batch that are to be processed.
ToProcess == BatchFiles \ batchSkipped

\* C16: when the batch has been answered, every file that was to be
\* processed has been handed to processPhoto: a failure on one file does not
\* keep the files after it from being processed.
C16_FailureDoesNotAbortBatch ==
    batchResponse.status # 0 => batchAttempted = ToProcess

----------------------------------------------------------------------------
(*                    PROPERTIES OF THE IMAGE ANALYSIS                     *)

\* C17: for channel means in 0..255, luma lies in [0, 255] and saturation in
\* [0, 1], and saturation is 0 when the largest channel is 0.
C17_LumaAndSaturationInRange ==
    analyzePc = "done" =>
        /\ 0 <= luma /\ luma <= 255 * 1000
        /\ saturation.den > 0
        /\ 0 <= saturation.num /\ saturation.num <= saturation.den
        /\ Max3(avgR, avgG, avgB) = 0 => saturation.num = 0

\* A black image has been analyzed.
C17_Witness ==
    /\ analyzePc = "done"
    /\ Max3(avgR, avgG, avgB) = 0
    /\ saturation.num = 0
    /\ luma = 0

----------------------------------------------------------------------------
(*                    PROPERTIES OF THE ENGINE                             *)

SpriteIds == 1..Len(sprites)

\* No animateSprite closure on sprite s is pending.
Settled(s) == \A k \in 1..Len(anims) : anims[k].sprite # s

\* C1: a sprite that was hovered and then released (it is no longer the
\* hovered sprite, its draw order is back to 0) and whose animations have run
\* to completion is exactly at the x, y and scale saved for it in the
\* rest-state table, whatever the scroll offset.
C1_HoverEndRestoresRestState ==
    \A s \in SpriteIds :
      (hoveredSprite # s /\ sprites[s].zIndex = 0 /\ Settled(s)) =>
        /\ sprites[s].x = originalSpriteData[s].x
        /\ sprites[s].y = originalSpriteData[s].y
        /\ sprites[s].scale = originalSpriteData[s].scale

\* C2: whenever a sprite is hovered the scrolling flag is off.
C2_HoveredImpliesPaused ==
    hoveredSprite \in SpriteIds => ~isScrolling

\* A step in which the ticker runs animate while scrolling is on.
ScrollingTick == frameDue /\ ~frameDue' /\ TickRuns /\ isScrolling

\* C3: a tick while scrolling moves the offset by scrollSpeed * elapsed *
\* direction, zeroes it exactly when its magnitude is above the loop width,
\* and the position it applies to the container is at most one loop width
\* in magnitude.
C3_TickAdvancesWithinLoop ==
    [][ScrollingTick =>
         LET loopWidth == getLoopWidth(sprites)
             direction == IF config.scrollDirection = "right" THEN 1 ELSE -1
             advanced == scrollOffset
                         + ((config.scrollSpeed * (now - lastTime)) \div 1000) * direction
         IN  /\ scrollOffset' = IF Abs(advanced) > loopWidth THEN 0 ELSE advanced
             /\ Abs(containerX') <= loopWidth]_vars

\* ---- init ---------------------------------------------------------------

\* A scene has been constructed, a sprite exists or onReady has been called.
SceneOrReady == stage.containers > 0 \/ sprites # <<>> \/ readyCalls > 0

C12_ReadyOnlyWithFont ==
    (phase = "ready" \/ SceneOrReady) => fontLoaded

\* ---- rebuilds -----------------------------------------------------------

\* A step of updateConfig or handleResize that builds a scene over an
\* earlier one.
RebuildStep == stage.containers > 0 /\ stage'.containers = stage.containers + 1

\* C13: once updateConfig or a resize has rebuilt the scene the engine is
\* scrolling with no sprite hovered, also when the rebuild arrives while a
\* sprite is hovered.
C13_RebuildLeavesScrolling ==
    [][RebuildStep => (isScrolling' /\ hoveredSprite' = 0)]_vars

\* ---- destroy ------------------------------------------------------------

DestroyStep == destroyCalls' = destroyCalls + 1

\* The engine fields as a destroy call leaves them.
EngineFieldsAfter ==
    [app |-> app', atlas |-> atlas', tickerOn |-> tickerOn', stage |-> stage',
     sprites |-> sprites', originalSpriteData |-> originalSpriteData',
     anims |-> anims', resizeListener |-> resizeListener',
     hoveredSprite |-> hoveredSprite', isScrolling |-> isScrolling',
     timers |-> timers', container |-> container']

C15_NoListenerAfterDestroy ==
    destroyed => (~resizeListener /\ ~tickerOn)

\* C18: once destroy has been invoked, init does nothing more: no scene is
\* constructed, no tick or resize handler is registered and onReady is not
\* called, also when destroy came while init was awaiting.
C18_DestroyCancelsInit ==
    [][destroyed =>
         /\ stage'.containers <= stage.containers
         /\ tickerOn' => tickerOn
         /\ resizeListener' => resizeListener
         /\ readyCalls' = readyCalls]_vars

\* ---- hover animations --------------------------------------------------

\* The closure of the animateSprite request made by handleHoverEnd.
IsRestore(a) ==
    /\ a.sprite \in DOMAIN originalSpriteData
    /\ a.scale = originalSpriteData[a.sprite].scale

\* C19: the scrolling flag is turned back on only when no restore animation
\* has a frame left to apply.
C19_ResumeOnlyAfterRestore ==
    [][(~isScrolling /\ isScrolling') =>
         \A k \in 1..Len(anims) : ~IsRestore(anims[k])]_vars

\* The closures pending on sprite s, as positions in anims (request order).
AnimsOn(s) == {k \in 1..Len(anims) : anims[k].sprite = s}

LatestOn(s) == CHOOSE k \in AnimsOn(s) : \A j \in AnimsOn(s) : j <= k

FrameStep == frameDue /\ ~frameDue'

\* C20 as stated: once a second request is made on a sprite the earlier
\* closure no longer writes, so no frame runs two closures on one sprite.
C20_EarlierStopsWriting ==
    [][FrameStep => \A s \in 1..Len(sprites) : Cardinality(AnimsOn(s)) <= 1]_vars

\* C20 as the code has it: in every frame each sprite with pending requests
\* is left where the closure of its most recent request puts it, whatever the
\* earlier closures wrote before it in that frame; and when that closure has
\* run its last frame the sprite is exactly at its target and no closure on
\* the sprite remains.
C20_LatestRequestWins ==
    [][FrameStep =>
         \A s \in 1..Len(sprites) :
            AnimsOn(s) # {} =>
               LET a == anims[LatestOn(s)]
                   alone == AnimFrame(sprites, a, now)[s]
               IN  /\ sprites'[s].x = alone.x
                   /\ sprites'[s].y = alone.y
                   /\ sprites'[s].scale = alone.scale
                   /\ ~AnimContinues(a, now) =>
                         /\ sprites'[s].x = a.x
                         /\ sprites'[s].y = a.y
                         /\ sprites'[s].scale = a.scale
                         /\ \A k \in 1..Len(anims') : anims'[k].sprite # s]_vars

\* A zoom and the restore requested over it are both pending on one sprite,
\* and a frame has run since the restore was requested: the sprite has left
\* the scale the restore started from, towards its rest scale.
C20_Witness ==
    \E s \in 1..Len(sprites) :
        /\ Cardinality(AnimsOn(s)) = 2
        /\ IsRestore(anims[LatestOn(s)])
        /\ ~frameDue
        /\ sprites[s].scale < anims[LatestOn(s)].startScale
        /\ sprites[s].scale > anims[LatestOn(s)].scale

\* ---- one raised sprite at a time -------------------------------------------

\* C27: every sprite other than the hovered one has zIndex 0 and is at its
\* rest scale with nothing pending on it, or is being animated back to it.
C27_OnlyHoveredIsRaised ==
    \A s \in 1..Len(sprites) :
        s # hoveredSprite =>
            /\ sprites[s].zIndex = 0
            /\ \/ AnimsOn(s) = {} /\ sprites[s].scale = originalSpriteData[s].scale
               \/ AnimsOn(s) # {} /\ IsRestore(anims[LatestOn(s)])

\* ---- what rebuilds leave on the stage --------------------------------------

\* C28: once the scene has been created, and after every rebuild, the stage
\* of the live application holds one scroll container and one dimming
\* overlay, and no overlay is visible while no sprite is hovered.
C28_OneContainerOneOverlay ==
    (app /\ container) =>
        /\ stage.containers = 1
        /\ Len(stage.overlays) = 1
        /\ hoveredSprite = 0 => \A k \in 1..Len(stage.overlays) : ~stage.overlays[k]

\* ---- frame-rate window ----------------------------------------------------

\* A frame in which the ticker's animate passes its first check.
TickStep == frameDue /\ ~frameDue' /\ TickRuns

\* The window closes on this tick.
WindowCloses == fpsTimer + (now - lastTime) >= 1000

\* C24 as stated: the value handed to onFpsUpdate is the frames of the window
\* divided by its accumulated time.
C24_ReportsTheQuotient ==
    [][(TickStep /\ WindowCloses) =>
         fpsReported' * (fpsTimer + (now - lastTime)) = (frameCount + 1) * 1000]_vars

\* C24 as the code has it: every tick, scrolling or not, adds one frame and
\* the elapsed time; onFpsUpdate is called exactly on the ticks on which the
\* accumulated time reaches one second, with the frames divided by the
\* accumulated time rounded to the nearest integer, and both accumulators
\* are then zero; no tick changes the configuration or the scene's make-up.
C24_FpsWindow ==
    [][/\ TickStep =>
            LET count == frameCount + 1
                timer == fpsTimer + (now - lastTime)
            IN  /\ lastTime' = now
                /\ IF timer >= 1000
                   THEN /\ fpsUpdates' = fpsUpdates + 1
                        /\ 2 * fpsReported' * timer - 2 * count * 1000 <= timer
                        /\ 2 * count * 1000 - 2 * fpsReported' * timer < timer
                        /\ currentFps' = [frames |-> count, ms |-> timer]
                        /\ frameCount' = 0
                        /\ fpsTimer' = 0
                   ELSE /\ frameCount' = count
                        /\ fpsTimer' = timer
                        /\ UNCHANGED <<fpsUpdates, fpsReported, currentFps>>
                /\ UNCHANGED <<config, screen, stage, originalSpriteData>>
                /\ Len(sprites') = Len(sprites)
                /\ anims = <<>> => sprites' = sprites
       /\ ~TickStep => UNCHANGED <<fpsUpdates, fpsReported, frameCount, fpsTimer>>]_vars

\* A window of three and a third frames per second has closed during a
\* hover: 3 was reported and both accumulators are zero.
C24_Witness ==
    /\ fpsUpdates = 1
    /\ currentFps = [frames |-> 4, ms |-> 1200]
    /\ fpsReported = 3
    /\ frameCount = 0
    /\ fpsTimer = 0
    /\ hoveredSprite = 1
    /\ ~isScrolling

----------------------------------------------------------------------------
(*            PROPERTIES OF VARIANTS OVER REPEATED PROCESSING              *)

\* The photo of the file has a row and lacks some of its nine variants.
Incomplete(file) == file \in retryRows /\ retryEntries[file] # AllVariants

\* C25: a failure of generateVariants is told to the caller, and a photo
\* whose variants are incomplete eventually has all nine (size, encoding)
\* entries, given that reindexing and processing are retried.
C25_RetryCompletesVariants ==
    /\ [][\A file \in RetryFileIds :
             (~Incomplete(file) /\ Incomplete(file)') => retryOutcome'[file] = "failed"]_vars
    /\ \A file \in RetryFileIds : Incomplete(file) ~> (retryEntries[file] = AllVariants)

----------------------------------------------------------------------------
(*                    PROPERTIES OF THE SESSIONS                           *)

\* C29: a token with which a logout request was made no longer passes
\* requireAuth, in the Authorization header or in the session cookie.
C29_LoggedOutTokenRejected ==
    \A token \in authLoggedOut :
        /\ requireAuth(BearerHeader(token), NoToken, authSessions).status = 401
        /\ requireAuth(NoHeader, token, authSessions).status = 401

----------------------------------------------------------------------------
(*                    PROPERTIES OF THE SETTINGS RESET                     *)

\* C30: every reset request is eventually answered, with the default
\* settings after the table was deleted and re-seeded, or with an error
\* status.
C30_ResetIsAnswered ==
    \A r \in ResetIds :
        (resetPc[r] # "idle") ~>
            \/ resetResponse[r] = [status |-> 200, settings |-> "defaults"]
            \/ resetResponse[r].status = 500

----------------------------------------------------------------------------
(*                           SPECIFICATIONS                                *)
(* Each component runs under a specification of its own, the others idle. *)

InitMap == MapInit /\ LayoutIdle /\ AtlasIdle /\ EngineIdle /\ BatchIdle /\ AnalyzeIdle /\ RetryIdle /\ AuthIdle /\ ResetIdle

SpecMap == InitMap /\ [][MapNext]_vars

InitLayout == LayoutInit /\ MapIdle /\ AtlasIdle /\ EngineIdle /\ BatchIdle /\ AnalyzeIdle /\ RetryIdle /\ AuthIdle /\ ResetIdle

SpecLayout == InitLayout /\ [][LayoutNext]_vars

InitAtlas == AtlasInit /\ MapIdle /\ LayoutIdle /\ EngineIdle /\ BatchIdle /\ AnalyzeIdle /\ RetryIdle /\ AuthIdle /\ ResetIdle

SpecAtlas == InitAtlas /\ [][AtlasNext]_vars

Init == EngineInit /\ MapIdle /\ LayoutIdle /\ AtlasIdle /\ BatchIdle /\ AnalyzeIdle /\ RetryIdle /\ AuthIdle /\ ResetIdle

Spec == Init /\ [][Next]_vars

InitBatch == BatchInit /\ MapIdle /\ LayoutIdle /\ AtlasIdle /\ EngineIdle /\ AnalyzeIdle /\ RetryIdle /\ AuthIdle /\ ResetIdle

SpecBatch == InitBatch /\ [][BatchNext]_vars

InitAnalyze == AnalyzeInit /\ MapIdle /\ LayoutIdle /\ AtlasIdle /\ EngineIdle /\ BatchIdle /\ RetryIdle /\ AuthIdle /\ ResetIdle

SpecAnalyze == InitAnalyze /\ [][AnalyzeNext]_vars

InitFps == EngineReady /\ MapIdle /\ LayoutIdle /\ AtlasIdle /\ BatchIdle /\ AnalyzeIdle /\ RetryIdle /\ AuthIdle /\ ResetIdle

SpecFps == InitFps /\ [][FpsNext]_vars

InitAuth == AuthInit /\ MapIdle /\ LayoutIdle /\ AtlasIdle /\ EngineIdle /\ BatchIdle /\ AnalyzeIdle /\ RetryIdle /\ ResetIdle

SpecAuth == InitAuth /\ [][AuthNext]_vars

InitReset == ResetInit /\ MapIdle /\ LayoutIdle /\ AtlasIdle /\ EngineIdle /\ BatchIdle /\ AnalyzeIdle /\ RetryIdle /\ AuthIdle

SpecReset == InitReset /\ [][ResetNext]_vars

\* A started import settles: the callback of a request that is waiting for
\* it is run.
SpecResetFair ==
    /\ SpecReset
    /\ \A r \in ResetIds : WF_vars(\E imported \in BOOLEAN : resetSettingsThen(r, imported))

InitRetry == RetryInit /\ MapIdle /\ LayoutIdle /\ AtlasIdle /\ EngineIdle /\ BatchIdle /\ AnalyzeIdle /\ AuthIdle /\ ResetIdle

SpecRetry == InitRetry /\ [][RetryNext]_vars

\* Retries are made as long as they can be: each of the two ways of retrying
\* a stored file is taken when it stays possible.
SpecRetryFair ==
    /\ SpecRetry
    /\ \A file \in RetryFileIds :
          WF_vars(ReindexSamePhoto(file)) /\ WF_vars(ProcessSamePhoto(file))

====
